---- MODULE Spec2Model ----
(***************************************************************************)
(* Word Duel (src/src/App.tsx): the game state machine, the hint card      *)
(* engine, the word validator and the scoring ledger of the WordDuel       *)
(* component, together with the dictionary loader it waits for.            *)
(*                                                                         *)
(* A string is a sequence of one-character strings, so that indexing,      *)
(* case conversion and trimming are computed rather than assumed.  An      *)
(* object with optional keys is a function whose DOMAIN holds the keys     *)
(* that are present; {} is the function with the empty domain.             *)
(***************************************************************************)
EXTENDS Integers, Sequences, FiniteSets, TLC

\* ------------------------------------------------------------------ bounds

\* Points one game may charge to the two players together (scores and logs
\* are unbounded in the program; every log entry charges at least one point).
MaxPoints == 4

\* randomFloat() returns k / RandomSteps for some k in 0 .. RandomSteps-1.
RandomSteps == 3

\* ------------------------------------------------- characters and strings

LowerCaseLetters ==
  << "a", "b", "c", "d", "e", "f", "g", "h", "i", "j", "k", "l", "m",
     "n", "o", "p", "q", "r", "s", "t", "u", "v", "w", "x", "y", "z" >>

UpperCaseLetters ==
  << "A", "B", "C", "D", "E", "F", "G", "H", "I", "J", "K", "L", "M",
     "N", "O", "P", "Q", "R", "S", "T", "U", "V", "W", "X", "Y", "Z" >>

Letter == { UpperCaseLetters[i] : i \in DOMAIN UpperCaseLetters }

WhiteSpace == { " " }

\* The upper-case form of each lower-case letter, and the converse.
UpperOf ==
  [c \in { LowerCaseLetters[i] : i \in DOMAIN LowerCaseLetters } |->
     UpperCaseLetters[CHOOSE i \in DOMAIN LowerCaseLetters : LowerCaseLetters[i] = c]]

LowerOf ==
  [c \in { UpperCaseLetters[i] : i \in DOMAIN UpperCaseLetters } |->
     LowerCaseLetters[CHOOSE i \in DOMAIN UpperCaseLetters : UpperCaseLetters[i] = c]]

\* Characters that are not letters are left as they are.
toUpperCaseChar(c) == IF c \in DOMAIN UpperOf THEN UpperOf[c] ELSE c

toLowerCaseChar(c) == IF c \in DOMAIN LowerOf THEN LowerOf[c] ELSE c

toUpperCase(s) == [i \in 1..Len(s) |-> toUpperCaseChar(s[i])]

toLowerCase(s) == [i \in 1..Len(s) |-> toLowerCaseChar(s[i])]

RECURSIVE trimStart(_)
trimStart(s) ==
  IF s # << >> /\ Head(s) \in WhiteSpace THEN trimStart(Tail(s)) ELSE s

RECURSIVE trimEnd(_)
trimEnd(s) ==
  IF s # << >> /\ s[Len(s)] \in WhiteSpace
  THEN trimEnd(SubSeq(s, 1, Len(s) - 1))
  ELSE s

\* Mutant of trim: the whitespace is kept.
trimNothing(s) == s

trim(s) == trimEnd(trimStart(s))

\* s.slice(0, 1)
sliceFirst(s) == IF s = << >> THEN << >> ELSE << Head(s) >>

\* ------------------------------------------------------------- constants

SCORING_MODE == "HIGH_WINS"

WRONG_GUESS_PENALTY == 2

MIN_WORD_LENGTH == 3

SCRABBLE_COUNTS ==
  "A" :> 9 @@ "B" :> 2 @@ "C" :> 2 @@ "D" :> 4 @@ "E" :> 12 @@ "F" :> 2 @@
  "G" :> 3 @@ "H" :> 2 @@ "I" :> 9 @@ "J" :> 1 @@ "K" :> 1 @@ "L" :> 4 @@
  "M" :> 2 @@ "N" :> 6 @@ "O" :> 8 @@ "P" :> 2 @@ "Q" :> 1 @@ "R" :> 6 @@
  "S" :> 4 @@ "T" :> 6 @@ "U" :> 4 @@ "V" :> 2 @@ "W" :> 2 @@ "X" :> 1 @@
  "Y" :> 2 @@ "Z" :> 1

VOWELS == { "A", "E", "I", "O", "U" }

\* {} and null
EmptyObject == [k \in {} |-> 0]

null == [k \in {} |-> 0]

\* ------------------------------------------------------ letter inventories

\* available[letter] || 0
CountOf(record, letter) ==
  IF letter \in DOMAIN record THEN record[letter] ELSE 0

countLetters(word) ==
  LET up == toUpperCase(word)
  IN  [l \in { up[i] : i \in DOMAIN up } |->
         Cardinality({ i \in DOMAIN up : up[i] = l })]

\* Mutant of canBuild: a letter of the inventory may be used any number of times.
canBuildByPresence(word, available) ==
  LET needed == countLetters(word)
  IN  \A letter \in DOMAIN needed : ~(CountOf(available, letter) < 1)

canBuild(word, available) ==
  LET needed == countLetters(word)
  IN  \A letter \in DOMAIN needed : ~(CountOf(available, letter) < needed[letter])

\* Results of drawVowelsAndConsonants().combined the model lets a game draw:
\* 4 vowels and 7 consonants each, within the tile counts of SCRABBLE_COUNTS.
DrawOutcomes ==
  { "A" :> 1 @@ "E" :> 2 @@ "O" :> 1 @@
    "C" :> 1 @@ "D" :> 1 @@ "L" :> 1 @@ "N" :> 1 @@ "R" :> 1 @@ "S" :> 1 @@ "T" :> 1,
    "A" :> 1 @@ "I" :> 1 @@ "O" :> 1 @@ "U" :> 1 @@
    "B" :> 1 @@ "D" :> 1 @@ "G" :> 2 @@ "M" :> 1 @@ "N" :> 1 @@ "P" :> 1 }

\* ---------------------------------------------------------------- dictionary

\* The word list served at /wordlists/words.txt, after the loader's filter.
WordList ==
  { << "t", "e", "e" >>, << "d", "o", "g" >>, << "c", "a", "b" >> }

\* ------------------------------------------------------------ hint cards

\* {...obj, key: value, ...}: the keys written last win.
Spread(obj, overrides) == overrides @@ obj

RECURSIVE filterSeq(_, _)
\* seq.filter(x => x \in keep), for seq without holes
filterSeq(seq, keep) ==
  IF seq = << >> THEN << >>
  ELSE IF Head(seq) \in keep
       THEN << Head(seq) >> \o filterSeq(Tail(seq), keep)
       ELSE filterSeq(Tail(seq), keep)

RECURSIVE uniqueSeq(_)
\* Array.from(new Set(seq)): first occurrences, in order
uniqueSeq(seq) ==
  IF seq = << >> THEN << >>
  ELSE LET init == uniqueSeq(SubSeq(seq, 1, Len(seq) - 1))
           x == seq[Len(seq)]
       IN  IF \E i \in DOMAIN init : init[i] = x THEN init ELSE Append(init, x)

\* s.includes(sub)
includes(s, sub) ==
  \E i \in 0..(Len(s) - Len(sub)) : SubSeq(s, i + 1, i + Len(sub)) = sub

\* Math.floor(randomFloat() * n), for randomFloat() = k / RandomSteps
randomIndex(k, n) == (k * n) \div RandomSteps

RandomValues == 0..(RandomSteps - 1)

DUPLICATES_KEY ==
  << "_", "D", "U", "P", "L", "I", "C", "A", "T", "E", "S", "_" >>

HINT_CARDS ==
  << [id |-> "last-letter",     name |-> "Last Letter",      cost |-> 1, requiresInput |-> FALSE],
     [id |-> "word-length",     name |-> "Word Length",      cost |-> 3, requiresInput |-> FALSE],
     [id |-> "vowel-count",     name |-> "Vowel Count",      cost |-> 2, requiresInput |-> FALSE],
     [id |-> "first-letter",    name |-> "First Letter",     cost |-> 3, requiresInput |-> FALSE],
     [id |-> "contains-letter", name |-> "Contains Letter?", cost |-> 1, requiresInput |-> TRUE],
     [id |-> "random-letter",   name |-> "Random Letter",    cost |-> 3, requiresInput |-> FALSE],
     [id |-> "pattern-peek",    name |-> "Pattern Peek",     cost |-> 4, requiresInput |-> FALSE],
     [id |-> "double-trouble",  name |-> "Double Trouble",   cost |-> 2, requiresInput |-> FALSE] >>

Cards == { HINT_CARDS[i] : i \in DOMAIN HINT_CARDS }

\* word[word.length - 1] and word[0] are undefined for the empty word, and
\* undefined.toUpperCase() throws a TypeError.
effectThrows(card, word) ==
  card.id \in { "last-letter", "first-letter" } /\ word = << >>

\* Mutant of lastLetterEffect: the letter before the last is revealed.
lastLetterEffectOffByOne(word, revealed) ==
  Spread(revealed, [lastLetter |-> toUpperCaseChar(word[Len(word) - 1])])

lastLetterEffect(word, revealed) ==
  Spread(revealed, [lastLetter |-> toUpperCaseChar(word[Len(word)])])

wordLengthEffect(word, revealed) ==
  Spread(revealed, [length |-> Len(word)])

vowelCountEffect(word, revealed) ==
  LET count == Cardinality({ i \in DOMAIN word : toUpperCaseChar(word[i]) \in VOWELS })
  IN  Spread(revealed, [vowelCount |-> count])

firstLetterEffect(word, revealed) ==
  Spread(revealed, [firstLetter |-> toUpperCaseChar(word[1])])

\* revealed.contains, or {} when the key is absent
containsOf(revealed) ==
  IF "contains" \in DOMAIN revealed THEN revealed.contains ELSE EmptyObject

\* Mutant of containsLetterEffect: the answer replaces the earlier answers.
containsLetterEffectReplacing(word, revealed, input) ==
  IF input = << >> THEN revealed
  ELSE LET letter == toUpperCase(input)
           contains == includes(toUpperCase(word), letter)
       IN  Spread(revealed, [contains |-> letter :> contains])

containsLetterEffect(word, revealed, input) ==
  IF input = << >> THEN revealed
  ELSE LET letter == toUpperCase(input)
           contains == includes(toUpperCase(word), letter)
       IN  Spread(revealed,
                  [contains |-> Spread(containsOf(revealed), letter :> contains)])

\* revealed.knownLetters || []
knownLettersOf(revealed) ==
  IF "knownLetters" \in DOMAIN revealed THEN revealed.knownLetters ELSE << >>

\* Mutant of randomLetterEffect: the letter is picked among all the unique
\* letters, known or not.
randomLetterEffectAmongAll(word, revealed, k) ==
  LET unique == uniqueSeq(toUpperCase(word))
      existing == knownLettersOf(revealed)
  IN  IF Len(unique) = 0 THEN revealed
      ELSE Spread(revealed,
             [knownLetters |-> Append(existing, unique[randomIndex(k, Len(unique)) + 1])])

randomLetterEffect(word, revealed, k) ==
  LET letters == toUpperCase(word)
      unique == uniqueSeq(letters)
      existing == knownLettersOf(revealed)
      available ==
        filterSeq(unique, { unique[i] : i \in { j \in DOMAIN unique :
                                   \A e \in DOMAIN existing : existing[e] # unique[j] } })
  IN  IF Len(available) = 0 THEN revealed
      ELSE LET randomLetter == available[randomIndex(k, Len(available)) + 1]
           IN  Spread(revealed, [knownLetters |-> Append(existing, randomLetter)])

\* revealed.pattern || {}
patternOf(revealed) ==
  IF "pattern" \in DOMAIN revealed THEN revealed.pattern ELSE EmptyObject

RECURSIVE ascending(_)
\* the members of a finite set of numbers, in increasing order
ascending(S) ==
  IF S = {} THEN << >>
  ELSE LET m == CHOOSE x \in S : \A y \in S : x <= y
       IN  << m >> \o ascending(S \ {m})

\* Mutant of patternPeekEffect: the position is picked among all positions,
\* revealed or not.
patternPeekEffectAnyPosition(word, revealed, k) ==
  LET pattern == patternOf(revealed)
  IN  IF Len(word) = 0 THEN revealed
      ELSE LET idx == randomIndex(k, Len(word))
           IN  Spread(revealed,
                      [pattern |-> Spread(pattern, idx :> toUpperCaseChar(word[idx + 1]))])

\* Positions are zero-based, as in the program: word[idx] is word[idx + 1] here.
patternPeekEffect(word, revealed, k) ==
  LET pattern == patternOf(revealed)
      available == ascending({ i \in 0..(Len(word) - 1) : i \notin DOMAIN pattern })
  IN  IF Len(available) = 0 THEN revealed
      ELSE LET idx == available[randomIndex(k, Len(available)) + 1]
           IN  Spread(revealed,
                      [pattern |-> Spread(pattern, idx :> toUpperCaseChar(word[idx + 1]))])

doubleTroubleEffect(word, revealed) ==
  LET letters == toLowerCase(word)
      hasDuplicates == Cardinality({ letters[i] : i \in DOMAIN letters }) < Len(letters)
  IN  Spread(revealed,
             [contains |-> Spread(containsOf(revealed), DUPLICATES_KEY :> hasDuplicates)])

\* card.effect(word, revealed, input), with k the value randomFloat() returns
effect(card, word, revealed, input, k) ==
  CASE card.id = "last-letter"     -> lastLetterEffect(word, revealed)
    [] card.id = "word-length"     -> wordLengthEffect(word, revealed)
    [] card.id = "vowel-count"     -> vowelCountEffect(word, revealed)
    [] card.id = "first-letter"    -> firstLetterEffect(word, revealed)
    [] card.id = "contains-letter" -> containsLetterEffect(word, revealed, input)
    [] card.id = "random-letter"   -> randomLetterEffect(word, revealed, k)
    [] card.id = "pattern-peek"    -> patternPeekEffect(word, revealed, k)
    [] card.id = "double-trouble"  -> doubleTroubleEffect(word, revealed)

\* ------------------------------------------------------------------ state

VARIABLES
  gameState,    \* useState<GameState>
  error,        \* useState(''): the message shown, with the word it quotes
  dictLoading,  \* useState(true)
  dictionary,   \* the DictionaryLoader instance: its words and loading fields
  mountEffect,  \* where the useEffect that loads the dictionary stands
  last,         \* the handler that ran last, what it was given and how it ended
  turnBy,       \* who took the latest hint or guess of the game, and who the one before
  draw,         \* the call of drawVowelsAndConsonants() under way: its pools and counts
  loaderCalls,  \* the calls of dictionary.ensureLoaded(): how each stands, and the loads started
  hint          \* a secret word and the revealed record the card effects are applied to

vars ==
  << gameState, error, dictLoading, dictionary, mountEffect, last, turnBy, draw,
     loaderCalls, hint >>

FreshPublic == [score |-> 0, guessSolved |-> FALSE, revealed |-> EmptyObject]

InitialGameState(ready) ==
  [ mode |-> SCORING_MODE,
    minWordLen |-> MIN_WORD_LENGTH,
    phase |-> "START",
    p1 |-> [public |-> FreshPublic],
    p2 |-> [public |-> FreshPublic],
    swap |-> null,
    dictionaryReady |-> ready,
    hintLog |-> << >>,
    wrongGuesses |-> << >> ]

ErrorMessage(text) == [text |-> text, word |-> << >>]

NoError == ErrorMessage("")

\* No card effect has been applied to any word.
NoHint ==
  [ word |-> << >>, revealed |-> EmptyObject, before |-> EmptyObject, card |-> "",
    peeks |-> 0, randoms |-> 0 ]

\* No call of drawVowelsAndConsonants() is under way.
NoDraw ==
  [ stage |-> "idle", pool |-> EmptyObject, result |-> EmptyObject, i |-> 0, n |-> 0,
    picked |-> "", pickedFrom |-> 0, vowels |-> EmptyObject, consonants |-> EmptyObject,
    combined |-> EmptyObject, word |-> << >>, built |-> FALSE ]

\* What `last` records of one call: the handler, the gameState it was called
\* in, the card and the input field it read, and how it ended.
Ran(op, before, card, input, result) ==
  [op |-> op, before |-> before, card |-> card, input |-> input, result |-> result]

\* A hint was played or a guess was judged.
TurnTaken(call) ==
  /\ call.op \in { "playHintCard", "submitGuess" }
  /\ call.result \in { "ok", "correct", "wrong" }

\* `turnBy` after a call: the handlers name the acting player from the phase
\* (isP1), and a new game has had no turn yet.
turnByAfter(call, tb) ==
  IF TurnTaken(call)
  THEN [ latest |-> IF call.before.phase = "GUESS_P1" THEN "Player 1" ELSE "Player 2",
         previous |-> tb.latest ]
  ELSE IF call.op \in { "startGame", "resetGame" } /\ call.result = "ok"
       THEN [latest |-> "", previous |-> ""]
       ELSE tb

\* ------------------------------------------------------- dictionary loader

isReady(d) == d.words # null

isValidWord(d, word) ==
  IF d.words = null THEN FALSE
  ELSE trim(toLowerCase(word)) \in d.words.set

\* Callers of dictionary.ensureLoaded() other than the effect run at mount.
MaxCalls == 2

Callers == 1..MaxCalls

\* No call has been made, and loadDictionary() has not been started.
NoCalls ==
  [ status |-> [c \in Callers |-> "idle"],
    loads |-> 0,
    latest |-> [found |-> [words |-> null, loading |-> "null"], started |-> FALSE,
                status |-> "idle"] ]

\* Mutant of ensureLoadedCall: a load in flight is not looked for.
ensureLoadedCallUnguarded(d) ==
  IF d.words # null THEN [dictionary |-> d, status |-> "returned", started |-> FALSE]
  ELSE [dictionary |-> [d EXCEPT !.loading = "pending"], status |-> "waiting",
        started |-> TRUE]

\* Mutant of ensureLoadedCall: a load that failed is tried again.
ensureLoadedCallRetrying(d) ==
  IF d.words # null THEN [dictionary |-> d, status |-> "returned", started |-> FALSE]
  ELSE IF d.loading \in { "pending", "fulfilled" }
       THEN [dictionary |-> d, status |-> "waiting", started |-> FALSE]
       ELSE [dictionary |-> [d EXCEPT !.loading = "pending"], status |-> "waiting",
             started |-> TRUE]

\* ensureLoaded() up to its return or first await: the loader it leaves, how
\* the call stands, and whether it called loadDictionary().
ensureLoadedCall(d) ==
  IF d.words # null THEN [dictionary |-> d, status |-> "returned", started |-> FALSE]
  ELSE IF d.loading # "null"
       THEN [dictionary |-> d, status |-> "waiting", started |-> FALSE]
       ELSE [dictionary |-> [d EXCEPT !.loading = "pending"], status |-> "waiting",
             started |-> TRUE]

\* loaderCalls after a call that found the loader as `found`.
called(calls, found, call) ==
  [calls EXCEPT !.loads = IF call.started THEN @ + 1 ELSE @,
                !.latest = [found |-> found, started |-> call.started,
                            status |-> call.status]]

\* The effect run at mount: dictionary.ensureLoaded() up to its first await.
ensureLoaded ==
  /\ mountEffect = "mount"
  /\ mountEffect' = "waiting"
  /\ dictionary' = ensureLoadedCall(dictionary).dictionary
  /\ loaderCalls' = called(loaderCalls, dictionary, ensureLoadedCall(dictionary))
  /\ last' = Ran("ensureLoaded", gameState, "", << >>, "ok")
  /\ UNCHANGED << gameState, error, dictLoading, draw, hint >>
  /\ turnBy' = turnByAfter(last', turnBy)

\* loadDictionary() finds the words, in the cache or on the network.
loadDictionaryResolves ==
  /\ dictionary.loading = "pending"
  /\ dictionary' = [words |-> [set |-> WordList], loading |-> "fulfilled"]
  /\ last' = Ran("loadDictionary", gameState, "", << >>, "ok")
  /\ UNCHANGED << gameState, error, dictLoading, mountEffect, draw, loaderCalls, hint >>
  /\ turnBy' = turnByAfter(last', turnBy)

\* loadDictionary() rethrows the network error.
loadDictionaryRejects ==
  /\ dictionary.loading = "pending"
  /\ dictionary' = [dictionary EXCEPT !.loading = "rejected"]
  /\ last' = Ran("loadDictionary", gameState, "", << >>, "threw")
  /\ UNCHANGED << gameState, error, dictLoading, mountEffect, draw, loaderCalls, hint >>
  /\ turnBy' = turnByAfter(last', turnBy)

dictionaryReadyUpdate(prev) == Spread(prev, [dictionaryReady |-> TRUE])

\* .then(() => { setGameState(...dictionaryReady: true); setDictLoading(false) })
ensureLoadedThen ==
  /\ mountEffect = "waiting"
  /\ dictionary.loading = "fulfilled"
  /\ gameState' = dictionaryReadyUpdate(gameState)
  /\ dictLoading' = FALSE
  /\ mountEffect' = "done"
  /\ last' = Ran("ensureLoaded.then", gameState, "", << >>, "ok")
  /\ UNCHANGED << error, dictionary, draw, loaderCalls, hint >>
  /\ turnBy' = turnByAfter(last', turnBy)

\* .catch(err => { setError('Failed to load dictionary: ...'); setDictLoading(false) })
ensureLoadedCatch ==
  /\ mountEffect = "waiting"
  /\ dictionary.loading = "rejected"
  /\ error' = ErrorMessage("Failed to load dictionary: Failed to fetch dictionary")
  /\ dictLoading' = FALSE
  /\ mountEffect' = "done"
  /\ last' = Ran("ensureLoaded.catch", gameState, "", << >>, "ok")
  /\ UNCHANGED << gameState, dictionary, draw, loaderCalls, hint >>
  /\ turnBy' = turnByAfter(last', turnBy)

\* ------------------------------------------------------------- state updates
\* Each update is the function a handler passes to setGameState: `snapshot` is
\* the gameState the handler's closure was rendered with, `prev` the state the
\* update is applied to.

hasSecret(p) == "secret" \in DOMAIN p

\* Mutant of startGameUpdate: the drawn letters are not handed to player 1.
startGameUpdateWithoutLetters(prev, combined) ==
  Spread(prev, [phase |-> "SETUP_P1", p1 |-> [public |-> FreshPublic]])

startGameUpdate(prev, combined) ==
  Spread(prev,
    [ phase |-> "SETUP_P1",
      p1 |-> [ secret |-> [letters |-> combined, word |-> << >>],
               public |-> FreshPublic ] ])

\* Mutant of validateWord: the dictionary is asked before the letters.
validateWordDictionaryFirst(d, word, letters) ==
  IF Len(word) < MIN_WORD_LENGTH THEN "Word must be at least 3 letters"
  ELSE IF ~isValidWord(d, word) THEN "Word not in dictionary"
  ELSE IF ~canBuild(word, letters) THEN "Cannot build this word with available letters"
  ELSE ""

\* Mutant of validateWord: the dictionary is not asked.
validateWordSkippingDictionary(d, word, letters) ==
  IF Len(word) < MIN_WORD_LENGTH THEN "Word must be at least 3 letters"
  ELSE IF ~canBuild(word, letters) THEN "Cannot build this word with available letters"
  ELSE ""

validateWord(d, word, letters) ==
  IF Len(word) < MIN_WORD_LENGTH THEN "Word must be at least 3 letters"
  ELSE IF ~canBuild(word, letters) THEN "Cannot build this word with available letters"
  ELSE IF ~isValidWord(d, word) THEN "Word not in dictionary"
  ELSE ""

\* Mutant of confirmSetupWordP1Update: the swap is written at once.
confirmSetupWordP1UpdateSwappingEarly(prev, setupWord, combined) ==
  Spread(prev,
    [ phase |-> "SETUP_P2",
      p1 |-> Spread(prev.p1,
               [secret |-> Spread(prev.p1.secret, [word |-> toLowerCase(setupWord)])]),
      p2 |-> [ secret |-> [letters |-> combined, word |-> << >>],
               public |-> FreshPublic ],
      swap |-> [p1Gets |-> combined, p2Gets |-> prev.p1.secret.letters] ])

confirmSetupWordP1Update(prev, setupWord, combined) ==
  Spread(prev,
    [ phase |-> "SETUP_P2",
      p1 |-> Spread(prev.p1,
               [secret |-> Spread(prev.p1.secret, [word |-> toLowerCase(setupWord)])]),
      p2 |-> [ secret |-> [letters |-> combined, word |-> << >>],
               public |-> FreshPublic ] ])

\* Mutant of swapOf: each player is handed their own letters.
swapOfUncrossed(prev) ==
  [p1Gets |-> prev.p1.secret.letters, p2Gets |-> prev.p2.secret.letters]

swapOf(prev) ==
  [p1Gets |-> prev.p2.secret.letters, p2Gets |-> prev.p1.secret.letters]

\* Mutant of confirmSetupWordP2Update: player 2 is the first to guess.
confirmSetupWordP2UpdatePlayer2First(prev, setupWord) ==
  Spread(prev,
    [ phase |-> "PASS_TO_GUESS_P2",
      p2 |-> Spread(prev.p2,
               [secret |-> Spread(prev.p2.secret, [word |-> toLowerCase(setupWord)])]),
      swap |-> swapOf(prev) ])

confirmSetupWordP2Update(prev, setupWord) ==
  Spread(prev,
    [ phase |-> "PASS_TO_GUESS_P1",
      p2 |-> Spread(prev.p2,
               [secret |-> Spread(prev.p2.secret, [word |-> toLowerCase(setupWord)])]),
      swap |-> swapOf(prev) ])

\* Mutant of proceedToGuessUpdate: the hint log is emptied on the way.
proceedToGuessUpdateForgetting(prev, phase) ==
  Spread(prev, [phase |-> phase, hintLog |-> << >>])

\* Mutant of proceedToGuessUpdate: the device goes to the other player's turn.
proceedToGuessUpdateCrossed(prev, phase) ==
  Spread(prev, [phase |-> IF phase = "GUESS_P1" THEN "GUESS_P2" ELSE "GUESS_P1"])

proceedToGuessUpdate(prev, phase) == Spread(prev, [phase |-> phase])

playerName(isP1) == IF isP1 THEN "Player 1" ELSE "Player 2"

\* Mutant of chargeScore: the amount is deducted.
chargeScoreDeducting(p, amount) ==
  Spread(p, [public |-> Spread(p.public, [score |-> p.public.score - amount])])

\* { ...p, public: { ...p.public, score: p.public.score + amount } }
chargeScore(p, amount) ==
  Spread(p, [public |-> Spread(p.public, [score |-> p.public.score + amount])])

\* Mutant of passToOther: the acting player keeps the turn.
passToSame(isP1) == IF isP1 THEN "PASS_TO_GUESS_P1" ELSE "PASS_TO_GUESS_P2"

passToOther(isP1) == IF isP1 THEN "PASS_TO_GUESS_P2" ELSE "PASS_TO_GUESS_P1"

\* Mutant of phaseAfterTurn: the game never ends.
phaseAfterTurnNeverEnding(isP1, bothSolved) == passToOther(isP1)

\* bothSolved ? 'ENDGAME' : (isP1 ? 'PASS_TO_GUESS_P2' : 'PASS_TO_GUESS_P1')
phaseAfterTurn(isP1, bothSolved) ==
  IF bothSolved THEN "ENDGAME" ELSE passToOther(isP1)

hintLogEntry(isP1, card) ==
  [player |-> playerName(isP1), card |-> card.name, cost |-> card.cost]

\* Mutant of playHintCardUpdate: a card that reveals nothing new is free.
playHintCardUpdateFreeWhenNothingNew(snapshot, prev, card, newRevealed) ==
  LET isP1 == snapshot.phase = "GUESS_P1"
      opponent == IF isP1 THEN snapshot.p2 ELSE snapshot.p1
      player == IF isP1 THEN snapshot.p1 ELSE snapshot.p2
      amount == IF newRevealed = player.public.revealed THEN 0 ELSE card.cost
      updatedOpponent == chargeScore(opponent, amount)
      updatedPlayer ==
        Spread(player, [public |-> Spread(player.public, [revealed |-> newRevealed])])
      newHintLog == Append(prev.hintLog, hintLogEntry(isP1, card))
      bothSolved == updatedPlayer.public.guessSolved /\ updatedOpponent.public.guessSolved
  IN  Spread(prev,
        [ p1 |-> IF isP1 THEN updatedPlayer ELSE updatedOpponent,
          p2 |-> IF isP1 THEN updatedOpponent ELSE updatedPlayer,
          hintLog |-> newHintLog,
          phase |-> phaseAfterTurn(isP1, bothSolved) ])

\* Mutant of playHintCardUpdate: the cost is charged to the player who plays
\* the card.
playHintCardUpdateChargingPlayer(snapshot, prev, card, newRevealed) ==
  LET isP1 == snapshot.phase = "GUESS_P1"
      opponent == IF isP1 THEN snapshot.p2 ELSE snapshot.p1
      player == IF isP1 THEN snapshot.p1 ELSE snapshot.p2
      updatedPlayer ==
        chargeScore(
          Spread(player, [public |-> Spread(player.public, [revealed |-> newRevealed])]),
          card.cost)
      newHintLog == Append(prev.hintLog, hintLogEntry(isP1, card))
      bothSolved == updatedPlayer.public.guessSolved /\ opponent.public.guessSolved
  IN  Spread(prev,
        [ p1 |-> IF isP1 THEN updatedPlayer ELSE opponent,
          p2 |-> IF isP1 THEN opponent ELSE updatedPlayer,
          hintLog |-> newHintLog,
          phase |-> phaseAfterTurn(isP1, bothSolved) ])

playHintCardUpdate(snapshot, prev, card, newRevealed) ==
  LET isP1 == snapshot.phase = "GUESS_P1"
      opponent == IF isP1 THEN snapshot.p2 ELSE snapshot.p1
      player == IF isP1 THEN snapshot.p1 ELSE snapshot.p2
      updatedOpponent == chargeScore(opponent, card.cost)
      updatedPlayer ==
        Spread(player, [public |-> Spread(player.public, [revealed |-> newRevealed])])
      newHintLog == Append(prev.hintLog, hintLogEntry(isP1, card))
      bothSolved == updatedPlayer.public.guessSolved /\ updatedOpponent.public.guessSolved
  IN  Spread(prev,
        [ p1 |-> IF isP1 THEN updatedPlayer ELSE updatedOpponent,
          p2 |-> IF isP1 THEN updatedOpponent ELSE updatedPlayer,
          hintLog |-> newHintLog,
          phase |-> phaseAfterTurn(isP1, bothSolved) ])

\* guessWord.toLowerCase() === opponent.secret.word
isCorrectGuess(guessWord, word) == toLowerCase(guessWord) = word

\* Mutant of markSolved: the flag is flipped.
markSolvedFlipping(player) ==
  Spread(player, [public |-> Spread(player.public,
                                    [guessSolved |-> ~player.public.guessSolved])])

markSolved(player) ==
  Spread(player, [public |-> Spread(player.public, [guessSolved |-> TRUE])])

\* Mutant of submitGuessCorrectUpdate: the game ends on the first solved word.
submitGuessCorrectUpdateEndingEarly(snapshot, prev) ==
  LET isP1 == snapshot.phase = "GUESS_P1"
      opponent == IF isP1 THEN snapshot.p2 ELSE snapshot.p1
      player == IF isP1 THEN snapshot.p1 ELSE snapshot.p2
      updatedPlayer == markSolved(player)
      bothSolved == updatedPlayer.public.guessSolved
  IN  Spread(prev,
        [ p1 |-> IF isP1 THEN updatedPlayer ELSE opponent,
          p2 |-> IF isP1 THEN opponent ELSE updatedPlayer,
          phase |-> phaseAfterTurn(isP1, bothSolved) ])

submitGuessCorrectUpdate(snapshot, prev) ==
  LET isP1 == snapshot.phase = "GUESS_P1"
      opponent == IF isP1 THEN snapshot.p2 ELSE snapshot.p1
      player == IF isP1 THEN snapshot.p1 ELSE snapshot.p2
      updatedPlayer == markSolved(player)
      bothSolved == updatedPlayer.public.guessSolved /\ opponent.public.guessSolved
  IN  Spread(prev,
        [ p1 |-> IF isP1 THEN updatedPlayer ELSE opponent,
          p2 |-> IF isP1 THEN opponent ELSE updatedPlayer,
          phase |-> phaseAfterTurn(isP1, bothSolved) ])

\* Mutant of wrongGuessEntry: the entry records a penalty of 1.
wrongGuessEntryUnderstated(isP1, guessWord) ==
  [player |-> playerName(isP1), word |-> guessWord, penalty |-> 1]

wrongGuessEntry(isP1, guessWord) ==
  [player |-> playerName(isP1), word |-> guessWord, penalty |-> WRONG_GUESS_PENALTY]

\* Mutant of submitGuessWrongUpdate: the penalty is charged to the guesser.
submitGuessWrongUpdateChargingGuesser(snapshot, prev, guessWord) ==
  LET isP1 == snapshot.phase = "GUESS_P1"
      opponent == IF isP1 THEN snapshot.p2 ELSE snapshot.p1
      player == IF isP1 THEN snapshot.p1 ELSE snapshot.p2
      updatedPlayer == chargeScore(player, WRONG_GUESS_PENALTY)
      newWrongGuesses == Append(prev.wrongGuesses, wrongGuessEntry(isP1, guessWord))
  IN  Spread(prev,
        [ p1 |-> IF isP1 THEN updatedPlayer ELSE opponent,
          p2 |-> IF isP1 THEN opponent ELSE updatedPlayer,
          wrongGuesses |-> newWrongGuesses,
          phase |-> passToOther(isP1) ])

submitGuessWrongUpdate(snapshot, prev, guessWord) ==
  LET isP1 == snapshot.phase = "GUESS_P1"
      opponent == IF isP1 THEN snapshot.p2 ELSE snapshot.p1
      player == IF isP1 THEN snapshot.p1 ELSE snapshot.p2
      updatedOpponent == chargeScore(opponent, WRONG_GUESS_PENALTY)
      newWrongGuesses == Append(prev.wrongGuesses, wrongGuessEntry(isP1, guessWord))
  IN  Spread(prev,
        [ p1 |-> IF isP1 THEN player ELSE updatedOpponent,
          p2 |-> IF isP1 THEN updatedOpponent ELSE player,
          wrongGuesses |-> newWrongGuesses,
          phase |-> passToOther(isP1) ])

\* Mutant of resetGameState: the new game waits for the dictionary again.
resetGameStateNotReady(d) == InitialGameState(FALSE)

\* The state resetGame sets: the initial one, with the loader's readiness.
resetGameState(d) == InitialGameState(isReady(d))

\* ----------------------------------------------------------------- handlers
\* Each handler is the whole function of the component: it reads the rendered
\* gameState and the input fields, and sets gameState, error and the fields.

startGame(combined) ==
  /\ IF ~gameState.dictionaryReady
     THEN /\ error' = ErrorMessage("Dictionary still loading...")
          /\ UNCHANGED gameState
          /\ last' = Ran("startGame", gameState, "", << >>, "rejected")
     ELSE /\ gameState' = startGameUpdate(gameState, combined)
          /\ UNCHANGED error
          /\ last' = Ran("startGame", gameState, "", << >>, "ok")
  /\ UNCHANGED << dictLoading, dictionary, mountEffect, draw, loaderCalls, hint >>
  /\ turnBy' = turnByAfter(last', turnBy)

confirmSetupWord(setupWord, combined) ==
  LET player == IF gameState.phase = "SETUP_P1" THEN gameState.p1 ELSE gameState.p2
  IN  /\ IF ~hasSecret(player)
         THEN /\ UNCHANGED << gameState, error >>
              /\ last' = Ran("confirmSetupWord", gameState, "", setupWord, "ignored")
         ELSE LET validationError == validateWord(dictionary, setupWord, player.secret.letters)
              IN  IF validationError # ""
                  THEN /\ error' = ErrorMessage(validationError)
                       /\ UNCHANGED gameState
                       /\ last' = Ran("confirmSetupWord", gameState, "", setupWord,
                                      "rejected")
                  ELSE /\ gameState' =
                            IF gameState.phase = "SETUP_P1"
                            THEN confirmSetupWordP1Update(gameState, setupWord, combined)
                            ELSE confirmSetupWordP2Update(gameState, setupWord)
                       /\ error' = NoError
                       /\ last' = Ran("confirmSetupWord", gameState, "", setupWord, "ok")
      /\ UNCHANGED << dictLoading, dictionary, mountEffect, draw, loaderCalls, hint >>
      /\ turnBy' = turnByAfter(last', turnBy)

proceedToGuess ==
  /\ gameState' =
       IF gameState.phase = "PASS_TO_GUESS_P1" THEN proceedToGuessUpdate(gameState, "GUESS_P1")
       ELSE IF gameState.phase = "PASS_TO_GUESS_P2"
            THEN proceedToGuessUpdate(gameState, "GUESS_P2")
            ELSE gameState
  /\ last' = Ran("proceedToGuess", gameState, "", << >>,
                 IF gameState.phase \in { "PASS_TO_GUESS_P1", "PASS_TO_GUESS_P2" }
                 THEN "ok" ELSE "ignored")
  /\ UNCHANGED << error, dictLoading, dictionary, mountEffect, draw, loaderCalls, hint >>
  /\ turnBy' = turnByAfter(last', turnBy)

playHintCard(card, cardInput, k) ==
  LET isP1 == gameState.phase = "GUESS_P1"
      opponent == IF isP1 THEN gameState.p2 ELSE gameState.p1
      player == IF isP1 THEN gameState.p1 ELSE gameState.p2
  IN  /\ IF ~hasSecret(opponent)
         THEN /\ UNCHANGED << gameState, error >>
              /\ last' = Ran("playHintCard", gameState, card.id, cardInput, "ignored")
         ELSE IF card.requiresInput /\ trim(cardInput) = << >>
         THEN /\ error' = ErrorMessage("Please enter a letter")
              /\ UNCHANGED gameState
              /\ last' = Ran("playHintCard", gameState, card.id, cardInput, "rejected")
         ELSE IF effectThrows(card, opponent.secret.word)
         THEN /\ UNCHANGED << gameState, error >>
              /\ last' = Ran("playHintCard", gameState, card.id, cardInput, "threw")
         ELSE LET newRevealed ==
                    effect(card, opponent.secret.word, player.public.revealed, cardInput, k)
              IN  /\ gameState' = playHintCardUpdate(gameState, gameState, card, newRevealed)
                  /\ error' = NoError
                  /\ last' = Ran("playHintCard", gameState, card.id, cardInput, "ok")
      /\ UNCHANGED << dictLoading, dictionary, mountEffect, draw, loaderCalls, hint >>
      /\ turnBy' = turnByAfter(last', turnBy)

submitGuess(guessWord) ==
  LET isP1 == gameState.phase = "GUESS_P1"
      opponent == IF isP1 THEN gameState.p2 ELSE gameState.p1
  IN  /\ IF trim(guessWord) = << >>
         THEN /\ error' = ErrorMessage("Enter a word to guess")
              /\ UNCHANGED gameState
              /\ last' = Ran("submitGuess", gameState, "", guessWord, "rejected")
         ELSE IF ~hasSecret(opponent)
         THEN /\ UNCHANGED << gameState, error >>
              /\ last' = Ran("submitGuess", gameState, "", guessWord, "ignored")
         ELSE IF isCorrectGuess(guessWord, opponent.secret.word)
         THEN /\ gameState' = submitGuessCorrectUpdate(gameState, gameState)
              /\ error' = NoError
              /\ last' = Ran("submitGuess", gameState, "", guessWord, "correct")
         ELSE /\ gameState' = submitGuessWrongUpdate(gameState, gameState, guessWord)
              /\ error' = [text |-> "Wrong! is incorrect. 2 points to opponent.",
                           word |-> guessWord]
              /\ last' = Ran("submitGuess", gameState, "", guessWord, "wrong")
      /\ UNCHANGED << dictLoading, dictionary, mountEffect, draw, loaderCalls, hint >>
      /\ turnBy' = turnByAfter(last', turnBy)

resetGame ==
  /\ gameState' = resetGameState(dictionary)
  /\ error' = NoError
  /\ last' = Ran("resetGame", gameState, "", << >>, "ok")
  /\ UNCHANGED << dictLoading, dictionary, mountEffect, draw, loaderCalls, hint >>
  /\ turnBy' = turnByAfter(last', turnBy)

\* ------------------------------------------------------------------ screens
\* What the component renders decides which handler a player can reach.

\* START screen: the Start Game button, disabled until the dictionary is ready.
startGameOffered(gs) == gs.phase = "START" /\ gs.dictionaryReady

\* SETUP screens: the Confirm Word button, disabled while the field is blank.
confirmSetupWordOffered(gs, setupWord) ==
  /\ gs.phase \in { "SETUP_P1", "SETUP_P2" }
  /\ trim(setupWord) # << >>

\* PASS screens: the I'm Ready button.
proceedToGuessOffered(gs) == gs.phase \in { "PASS_TO_GUESS_P1", "PASS_TO_GUESS_P2" }

\* GUESS screens: the card dialog's Use Card button.
playHintCardOffered(gs) == gs.phase \in { "GUESS_P1", "GUESS_P2" }

\* GUESS screens: the Submit Guess button and the Enter key of the guess field,
\* which calls submitGuess() whatever the field holds.
submitGuessOffered(gs) == gs.phase \in { "GUESS_P1", "GUESS_P2" }

\* ENDGAME screen: the Play Again button.
resetGameOffered(gs) == gs.phase = "ENDGAME"

\* ------------------------------------------------------------------- inputs

\* What a player types into the setup field; onChange stores it lowercased.
TypedSetupWords ==
  { << "T", "e", "e" >>, << "d", "o", "g" >>, << "a", "t" >>, << "z", "z" >>,
    << "c", "a", "b" >>, << "t", "a", "c" >>, << "x", "y", "z" >>, << " " >> }

setupWordOf(typed) == toLowerCase(typed)

\* What a player types into the guess field; onChange stores it lowercased.
TypedGuessWords ==
  { << "t", "e", "e" >>, << "D", "o", "g" >>, << " ", "t", "e", "e" >>,
    << >>, << " " >> }

guessWordOf(typed) == toLowerCase(typed)

\* What a player types into the card dialog's field; onChange stores the first
\* character, uppercased.
TypedCardInputs == { << >>, << " " >>, << "t", "o" >> }

cardInputOf(typed) == sliceFirst(toUpperCase(typed))

\* The dialog shows the field only for a card that requires input, and the
\* field is emptied when a card is played or the dialog is cancelled.
CardInputsFor(card) ==
  IF card.requiresInput THEN { cardInputOf(t) : t \in TypedCardInputs } ELSE { << >> }

\* Only the two cards that pick at random read randomFloat().
RandomValuesFor(card) ==
  IF card.id \in { "random-letter", "pattern-peek" } THEN RandomValues ELSE { 0 }

\* Only player 1's confirmation draws letters (for player 2).
DrawsFor(phase) ==
  IF phase = "SETUP_P1" THEN DrawOutcomes ELSE { CHOOSE d \in DrawOutcomes : TRUE }

\* The scores stay within the model's bound.
WithinBound(gs) == gs.p1.public.score + gs.p2.public.score <= MaxPoints

\* ------------------------------------------------------ the running program

ClickStartGame ==
  /\ startGameOffered(gameState)
  /\ \E combined \in DrawOutcomes : startGame(combined)

ClickConfirmSetupWord ==
  \E typed \in TypedSetupWords, combined \in DrawsFor(gameState.phase) :
    /\ confirmSetupWordOffered(gameState, setupWordOf(typed))
    /\ confirmSetupWord(setupWordOf(typed), combined)

ClickProceedToGuess ==
  /\ proceedToGuessOffered(gameState)
  /\ proceedToGuess

ClickUseCard ==
  /\ playHintCardOffered(gameState)
  /\ \E card \in Cards :
       \E cardInput \in CardInputsFor(card), k \in RandomValuesFor(card) :
         playHintCard(card, cardInput, k)
  /\ WithinBound(gameState')

EnterGuess ==
  /\ submitGuessOffered(gameState)
  /\ \E typed \in TypedGuessWords : submitGuess(guessWordOf(typed))
  /\ WithinBound(gameState')

ClickPlayAgain ==
  /\ resetGameOffered(gameState)
  /\ resetGame

\* The component and its loader before the effect of the mount has run.
InitComponent ==
  /\ gameState = InitialGameState(FALSE)
  /\ error = NoError
  /\ dictLoading = TRUE
  /\ dictionary = [words |-> null, loading |-> "null"]
  /\ mountEffect = "mount"
  /\ last = Ran("mount", InitialGameState(FALSE), "", << >>, "ok")
  /\ turnBy = [latest |-> "", previous |-> ""]
  /\ draw = NoDraw
  /\ loaderCalls = NoCalls

Init == InitComponent /\ hint = NoHint

Next ==
  \/ ensureLoaded
  \/ loadDictionaryResolves
  \/ loadDictionaryRejects
  \/ ensureLoadedThen
  \/ ensureLoadedCatch
  \/ ClickStartGame
  \/ ClickConfirmSetupWord
  \/ ClickProceedToGuess
  \/ ClickUseCard
  \/ EnterGuess
  \/ ClickPlayAgain

Spec == Init /\ [][Next]_vars

\* ------------------------------------------------------ letter pool generator
\* drawVowelsAndConsonants() draws 4 letters of the vowel pool and 7 of the
\* consonant pool with drawLetters(), whose loop reads randomFloat() once per
\* letter; SpecDraw runs one call of it, one letter a step, and then asks
\* canBuild() about words against the inventory drawn.

\* Object.keys(SCRABBLE_COUNTS): the keys in the order the literal lists them.
SCRABBLE_KEYS ==
  << "A", "B", "C", "D", "E", "F", "G", "H", "I", "J", "K", "L", "M",
     "N", "O", "P", "Q", "R", "S", "T", "U", "V", "W", "X", "Y", "Z" >>

vowelPool ==
  [l \in { x \in DOMAIN SCRABBLE_COUNTS : x \in VOWELS } |-> SCRABBLE_COUNTS[l]]

\* Mutant of consonantPool: the vowels are left in the pool.
consonantPoolOfAllLetters == SCRABBLE_COUNTS

consonantPool ==
  [l \in { x \in DOMAIN SCRABBLE_COUNTS : x \notin VOWELS } |-> SCRABBLE_COUNTS[l]]

\* Object.keys(pool)
keysOf(pool) == filterSeq(SCRABBLE_KEYS, DOMAIN pool)

\* letters.map(l => pool[l])
weightsOf(pool) ==
  LET letters == keysOf(pool)
  IN  [j \in DOMAIN letters |-> pool[letters[j]]]

RECURSIVE sumOf(_)
\* weights.reduce((a, b) => a + b, 0)
sumOf(weights) ==
  IF weights = << >> THEN 0 ELSE Head(weights) + sumOf(Tail(weights))

RECURSIVE pickFrom(_, _, _)
\* The inner loop of drawLetters from index j on, rand counted in units of
\* 1 / RandomSteps: rand -= weights[j], and j is taken when rand <= 0 (0: the
\* loop ends without taking one).
pickFrom(weights, j, rand) ==
  IF j > Len(weights) THEN 0
  ELSE LET left == rand - RandomSteps * weights[j]
       IN  IF left <= 0 THEN j ELSE pickFrom(weights, j + 1, left)

\* The index drawLetters takes for randomFloat() = k / RandomSteps:
\* rand = randomFloat() * total.
pickIndex(weights, k) == pickFrom(weights, 1, k * sumOf(weights))

\* combined = { ...vowels }, then combined[l] = (combined[l] || 0) + consonants[l]
combinedOf(vowels, consonants) ==
  [l \in DOMAIN vowels \cup DOMAIN consonants |->
     CountOf(vowels, l) + CountOf(consonants, l)]

gameVars ==
  << gameState, error, dictLoading, dictionary, mountEffect, last, turnBy, loaderCalls,
     hint >>

\* drawVowelsAndConsonants() up to its first call of drawLetters.
drawVowelsAndConsonants ==
  /\ draw.stage = "idle"
  /\ draw' = [NoDraw EXCEPT !.stage = "vowels", !.pool = vowelPool, !.n = 4]
  /\ UNCHANGED gameVars

\* One iteration of the loop of drawLetters.
drawLettersIteration(k) ==
  /\ draw.stage \in { "vowels", "consonants" }
  /\ draw.i < draw.n
  /\ LET letters == keysOf(draw.pool)
         weights == weightsOf(draw.pool)
         total == sumOf(weights)
         j == pickIndex(weights, k)
     IN  IF total = 0
         THEN draw' = [draw EXCEPT !.i = draw.n, !.picked = ""]
         ELSE IF j = 0
         THEN draw' = [draw EXCEPT !.i = @ + 1, !.picked = ""]
         ELSE LET letter == letters[j]
              IN  draw' = [draw EXCEPT
                             !.i = @ + 1,
                             !.picked = letter,
                             !.pickedFrom = draw.pool[letter],
                             !.result = (letter :> (CountOf(draw.result, letter) + 1)) @@ @,
                             !.pool = [@ EXCEPT ![letter] = @ - 1]]
  /\ UNCHANGED gameVars

\* drawLetters returns: the vowels to drawVowelsAndConsonants, which then draws
\* the consonants; the consonants, and drawVowelsAndConsonants combines the two.
drawLettersReturn ==
  /\ draw.stage \in { "vowels", "consonants" }
  /\ draw.i = draw.n
  /\ draw' =
       IF draw.stage = "vowels"
       THEN [draw EXCEPT !.stage = "consonants", !.vowels = draw.result,
                         !.pool = consonantPool, !.result = EmptyObject,
                         !.i = 0, !.n = 7, !.picked = ""]
       ELSE [draw EXCEPT !.stage = "done", !.consonants = draw.result,
                         !.combined = combinedOf(draw.vowels, draw.result),
                         !.picked = ""]
  /\ UNCHANGED gameVars

\* canBuild(word, combined) for the inventory drawn.
canBuildCalled(word) ==
  /\ draw.stage = "done"
  /\ draw' = [draw EXCEPT !.stage = "built", !.word = word,
                          !.built = canBuild(word, draw.combined)]
  /\ UNCHANGED gameVars

\* Words canBuild is asked about.
BuildWords ==
  { << "B", "a", "r" >>, << "E", "E", "L" >>, << "a", "l", "l" >>, << "a", " ", "b" >> }

DrawLetter == \E k \in RandomValues : drawLettersIteration(k)

AskCanBuild == \E word \in BuildWords : canBuildCalled(word)

NextDraw ==
  \/ drawVowelsAndConsonants
  \/ DrawLetter
  \/ drawLettersReturn
  \/ AskCanBuild

SpecDraw == Init /\ [][NextDraw]_vars

\* ------------------------------------------- handlers called off their screen
\* The handlers are closures of the component: none but proceedToGuess tests
\* the phase it is called in.  SpecDirect lets one handler be called in a state
\* of the running program whose screen does not offer it, and stops there.

\* Points a game may have charged when a handler is called off its screen.
MaxPointsBeforeDirectCall == 1

DirectCallAllowed ==
  gameState.p1.public.score + gameState.p2.public.score <= MaxPointsBeforeDirectCall

\* The call `last` records was one its screen offers.
LastWasOffered ==
  CASE last.op = "startGame" -> startGameOffered(last.before)
    [] last.op = "confirmSetupWord" -> confirmSetupWordOffered(last.before, last.input)
    [] last.op = "proceedToGuess" -> proceedToGuessOffered(last.before)
    [] last.op = "playHintCard" -> playHintCardOffered(last.before)
    [] last.op = "submitGuess" -> submitGuessOffered(last.before)
    [] last.op = "resetGame" -> resetGameOffered(last.before)
    [] OTHER -> TRUE

\* A call off its screen is tried where every call so far was offered.
DirectCallTried == LastWasOffered /\ DirectCallAllowed

DirectStartGame ==
  /\ DirectCallTried
  /\ ~startGameOffered(gameState)
  /\ \E combined \in DrawOutcomes : startGame(combined)

DirectConfirmSetupWord ==
  /\ DirectCallTried
  /\ \E typed \in TypedSetupWords, combined \in DrawsFor(gameState.phase) :
       /\ ~confirmSetupWordOffered(gameState, setupWordOf(typed))
       /\ confirmSetupWord(setupWordOf(typed), combined)

DirectProceedToGuess ==
  /\ DirectCallTried
  /\ ~proceedToGuessOffered(gameState)
  /\ proceedToGuess

DirectPlayHintCard ==
  /\ DirectCallTried
  /\ ~playHintCardOffered(gameState)
  /\ \E card \in Cards :
       \E cardInput \in CardInputsFor(card), k \in RandomValuesFor(card) :
         playHintCard(card, cardInput, k)

DirectSubmitGuess ==
  /\ DirectCallTried
  /\ ~submitGuessOffered(gameState)
  /\ \E typed \in TypedGuessWords : submitGuess(guessWordOf(typed))

DirectResetGame ==
  /\ DirectCallTried
  /\ ~resetGameOffered(gameState)
  /\ resetGame

\* The running program, as long as no handler was called off its screen.
Running == LastWasOffered /\ Next

NextDirect ==
  \/ Running
  \/ DirectStartGame
  \/ DirectConfirmSetupWord
  \/ DirectProceedToGuess
  \/ DirectPlayHintCard
  \/ DirectSubmitGuess
  \/ DirectResetGame

SpecDirect == Init /\ [][NextDirect]_vars

\* ------------------------------------------------ callers of ensureLoaded()
\* SpecLoad runs the loader under the effect of the mount and further callers
\* of ensureLoaded(), each calling as often as it likes, with the component's
\* reaction to the load and its Start Game and reset handlers.

\* ensureLoaded() called by c, up to its return or first await.
ensureLoadedCalledBy(c) ==
  /\ loaderCalls.status[c] # "waiting"
  /\ LET call == ensureLoadedCall(dictionary)
     IN  /\ dictionary' = call.dictionary
         /\ loaderCalls' =
              [called(loaderCalls, dictionary, call) EXCEPT !.status[c] = call.status]
  /\ UNCHANGED << gameState, error, dictLoading, mountEffect, last, turnBy, draw, hint >>

\* The promise c awaits settles: `return this.loading` and `await this.loading`
\* resolve or reject with the load.
ensureLoadedSettlesFor(c) ==
  /\ loaderCalls.status[c] = "waiting"
  /\ dictionary.loading \in { "fulfilled", "rejected" }
  /\ loaderCalls' =
       [loaderCalls EXCEPT
          !.status[c] = IF dictionary.loading = "fulfilled" THEN "returned" ELSE "threw"]
  /\ UNCHANGED << gameState, error, dictLoading, dictionary, mountEffect, last, turnBy,
                  draw, hint >>

CallEnsureLoaded == \E c \in Callers : ensureLoadedCalledBy(c)

SettleEnsureLoaded == \E c \in Callers : ensureLoadedSettlesFor(c)

NextLoad ==
  \/ ensureLoaded
  \/ CallEnsureLoaded
  \/ SettleEnsureLoaded
  \/ loadDictionaryResolves
  \/ loadDictionaryRejects
  \/ ensureLoadedThen
  \/ ensureLoadedCatch
  \/ ClickStartGame
  \/ DirectStartGame
  \/ DirectResetGame

SpecLoad == Init /\ [][NextLoad]_vars

\* -------------------------------------------------------------- card effects
\* SpecHint applies the effects of the hint cards, in any order and as often
\* as the bound allows, to the revealed record one player holds about one
\* secret word.

\* Secret words the effects are applied to.
HintWords == WordList \cup { << "n", "o", "o", "n" >> }

\* Applications of Pattern Peek, and of Random Letter, to one word.
MaxHints == 5

\* What playHintCard passes as input: the card dialog's field when it is not
\* blank.
HintInputsFor(card) == { input \in CardInputsFor(card) : card.requiresInput => trim(input) # << >> }

InitHint ==
  /\ InitComponent
  /\ hint \in { [NoHint EXCEPT !.word = word] : word \in HintWords }

\* card.effect(word, revealed, input)
effectApplied(card, input, k) ==
  /\ ~effectThrows(card, hint.word)
  /\ card.id = "pattern-peek" => hint.peeks < MaxHints
  /\ card.id = "random-letter" => hint.randoms < MaxHints
  /\ hint' = [hint EXCEPT
                !.before = hint.revealed,
                !.revealed = effect(card, hint.word, hint.revealed, input, k),
                !.card = card.id,
                !.peeks = IF card.id = "pattern-peek" THEN @ + 1 ELSE @,
                !.randoms = IF card.id = "random-letter" THEN @ + 1 ELSE @]
  /\ UNCHANGED << gameState, error, dictLoading, dictionary, mountEffect, last, turnBy,
                  draw, loaderCalls >>

\* The cards applied: the two that pick at random, and one that sets a field
\* of its own.
CardsApplied == { c \in Cards : c.id \in { "random-letter", "pattern-peek", "first-letter" } }

ApplyEffect ==
  \E card \in CardsApplied :
    \E input \in HintInputsFor(card), k \in RandomValuesFor(card) :
      effectApplied(card, input, k)

NextHint == ApplyEffect

SpecHint == InitHint /\ [][NextHint]_vars

\* ------------------------------------------------------------------- claims
\* `last.before` is the gameState the latest call found and gameState the one
\* it left, so a statement about one step is a statement about one state.

GuessPhases == { "GUESS_P1", "GUESS_P2" }

PassPhases == { "PASS_TO_GUESS_P1", "PASS_TO_GUESS_P2" }

\* The player who acted in the latest call, and the owner of the word they face.
ActorIsP1 == last.before.phase = "GUESS_P1"

ActorName == IF ActorIsP1 THEN "Player 1" ELSE "Player 2"

Actor(gs) == IF ActorIsP1 THEN gs.p1 ELSE gs.p2

Owner(gs) == IF ActorIsP1 THEN gs.p2 ELSE gs.p1

OtherPassPhase == IF ActorIsP1 THEN "PASS_TO_GUESS_P2" ELSE "PASS_TO_GUESS_P1"

CardOf(id) == CHOOSE c \in Cards : c.id = id

HintPlayed ==
  last.op = "playHintCard" /\ last.result = "ok" /\ last.before.phase \in GuessPhases

GuessSubmitted == last.op = "submitGuess" /\ last.before.phase \in GuessPhases

BothSolved(gs) == gs.p1.public.guessSolved /\ gs.p2.public.guessSolved

\* C1: a hint played in GUESS_Px adds exactly the card's cost to the score of
\* the owner of the secret word, leaves the acting player's score as it was,
\* and appends exactly the entry {acting player, card name, cost} to hintLog.
C1_HintChargesOwner ==
  HintPlayed =>
    LET card == CardOf(last.card)
    IN  /\ Owner(gameState).public.score = Owner(last.before).public.score + card.cost
        /\ Actor(gameState).public.score = Actor(last.before).public.score
        /\ gameState.hintLog =
             Append(last.before.hintLog,
                    [player |-> ActorName, card |-> card.name, cost |-> card.cost])

\* Scenario C: Word Length, cost 3, played by player 2 against a 3-letter word.
C1_Witness ==
  /\ HintPlayed
  /\ last.card = "word-length"
  /\ ~ActorIsP1
  /\ gameState.p2.public.revealed.length = 3
  /\ gameState.p1.public.score = last.before.p1.public.score + 3

\* What C2 says a wrong guess does.
WrongGuessCharged ==
  /\ Owner(gameState).public.score = Owner(last.before).public.score + 2
  /\ Actor(gameState).public.score = Actor(last.before).public.score
  /\ gameState.wrongGuesses =
       Append(last.before.wrongGuesses,
              [player |-> ActorName, word |-> last.input, penalty |-> 2])
  /\ gameState.hintLog = last.before.hintLog
  /\ gameState.phase = OtherPassPhase

\* C2 as stated: every non-empty guess that differs from the opponent's secret
\* word is charged as a wrong guess.
C2_AsStated ==
  (GuessSubmitted /\ last.input # << >> /\ last.input # Owner(last.before).secret.word)
    => WrongGuessCharged

\* C2, amended: every guess that is not blank (not empty after trimming) and
\* differs from the opponent's secret word adds exactly 2 to the opponent's
\* score, leaves the guesser's score, appends {guesser, guessed word, 2} to
\* wrongGuesses, and passes the turn to the other player, whatever the solved
\* flags are; it never ends the game.
C2_WrongGuessCharged ==
  (GuessSubmitted /\ trim(last.input) # << >>
                  /\ last.input # Owner(last.before).secret.word)
    => WrongGuessCharged

\* A wrong guess by a player who has already solved the opponent's word.
C2_Witness ==
  /\ GuessSubmitted
  /\ last.result = "wrong"
  /\ Actor(last.before).public.guessSolved
  /\ gameState.phase = OtherPassPhase

\* C3: a guess equal to the opponent's secret word sets the guesser's
\* guessSolved, changes no score and no log, and leads to ENDGAME if the other
\* player had solved already, else to the other player's PASS_TO_GUESS phase.
C3_CorrectGuess ==
  (GuessSubmitted /\ last.input = Owner(last.before).secret.word) =>
    /\ Actor(gameState).public.guessSolved
    /\ gameState.p1.public.score = last.before.p1.public.score
    /\ gameState.p2.public.score = last.before.p2.public.score
    /\ gameState.hintLog = last.before.hintLog
    /\ gameState.wrongGuesses = last.before.wrongGuesses
    /\ gameState.phase =
         IF Owner(last.before).public.guessSolved THEN "ENDGAME" ELSE OtherPassPhase

\* The second correct guess, which ends the game.
C3_Witness ==
  /\ GuessSubmitted
  /\ last.input = Owner(last.before).secret.word
  /\ Owner(last.before).public.guessSolved
  /\ gameState.phase = "ENDGAME"

\* C4: a hint or guess taken in GUESS_Px that does not end the game leads to
\* PASS_TO_GUESS_Py with y # x, and the player who takes a hint or guess is never
\* the player who took the one before it.
C4_TurnsAlternate ==
  (TurnTaken(last) /\ last.before.phase \in GuessPhases) =>
    /\ gameState.phase # "ENDGAME" => gameState.phase = OtherPassPhase
    /\ turnBy.latest = ActorName
    /\ turnBy.previous # turnBy.latest

\* A turn taken after the other player's turn.
C4_Witness ==
  /\ TurnTaken(last)
  /\ last.before.phase = "GUESS_P1"
  /\ turnBy.previous = "Player 2"
  /\ gameState.phase = "PASS_TO_GUESS_P2"

\* C5: the phase is ENDGAME exactly when both players have solved: in the pass
\* and guess phases at least one player is unsolved.
C5_EndgameIffBothSolved ==
  /\ gameState.phase = "ENDGAME" <=> BothSolved(gameState)
  /\ gameState.phase \in PassPhases \cup GuessPhases => ~BothSolved(gameState)

\* The game has ended after points were charged.
C5_Witness ==
  /\ gameState.phase = "ENDGAME"
  /\ BothSolved(gameState)
  /\ gameState.p1.public.score + gameState.p2.public.score > 0

\* What C6 lists as untouched by a call made in ENDGAME.
SameGame(a, b) ==
  /\ a.phase = b.phase
  /\ a.p1 = b.p1
  /\ a.p2 = b.p2
  /\ a.swap = b.swap
  /\ a.hintLog = b.hintLog
  /\ a.wrongGuesses = b.wrongGuesses

\* C6: ENDGAME is terminal: a call of startGame, confirmSetupWord,
\* proceedToGuess, playHintCard or submitGuess made in ENDGAME leaves the phase
\* ENDGAME and the scores, solved flags, secrets, swap and logs as they were,
\* and resetGame leads to START.
C6_EndgameTerminal ==
  last.before.phase = "ENDGAME" =>
    IF last.op = "resetGame"
    THEN gameState.phase = "START"
    ELSE SameGame(gameState, last.before)

Phases ==
  { "START", "SETUP_P1", "SETUP_P2", "PASS_TO_GUESS_P1", "GUESS_P1",
    "PASS_TO_GUESS_P2", "GUESS_P2", "ENDGAME" }

\* The edges C7 lists: << from, to, handler >>.
PhaseEdges ==
  { << "START", "SETUP_P1", "startGame" >>,
    << "SETUP_P1", "SETUP_P2", "confirmSetupWord" >>,
    << "SETUP_P2", "PASS_TO_GUESS_P1", "confirmSetupWord" >>,
    << "PASS_TO_GUESS_P1", "GUESS_P1", "proceedToGuess" >>,
    << "PASS_TO_GUESS_P2", "GUESS_P2", "proceedToGuess" >> }
  \cup { << "GUESS_P1", to, op >> :
           to \in { "PASS_TO_GUESS_P2", "ENDGAME" }, op \in { "playHintCard", "submitGuess" } }
  \cup { << "GUESS_P2", to, op >> :
           to \in { "PASS_TO_GUESS_P1", "ENDGAME" }, op \in { "playHintCard", "submitGuess" } }
  \cup { << from, "START", "resetGame" >> : from \in Phases }

\* C7: every change of phase is one of the edges START->SETUP_P1 (start),
\* SETUP_P1->SETUP_P2 and SETUP_P2->PASS_TO_GUESS_P1 (confirm),
\* PASS_TO_GUESS_Px->GUESS_Px (proceed), GUESS_Px->PASS_TO_GUESS_Py or
\* GUESS_Px->ENDGAME (hint or guess), and any phase->START (reset).
C7_PhaseEdges ==
  /\ gameState.phase \in Phases
  /\ gameState.phase # last.before.phase =>
       << last.before.phase, gameState.phase, last.op >> \in PhaseEdges

\* The device was handed to player 2 after player 1's turn.
C7_Witness ==
  /\ last.op = "proceedToGuess"
  /\ last.before.phase = "PASS_TO_GUESS_P2"
  /\ gameState.phase = "GUESS_P2"
  /\ turnBy.latest = "Player 1"

\* guessSolved of one player, before and after the latest call.
SolvedOnlyByOwnCorrectGuess(isP1) ==
  LET was == IF isP1 THEN last.before.p1.public.guessSolved
                     ELSE last.before.p2.public.guessSolved
      is == IF isP1 THEN gameState.p1.public.guessSolved
                    ELSE gameState.p2.public.guessSolved
  IN  /\ was => is
      /\ is # was =>
           /\ GuessSubmitted
           /\ ActorIsP1 = isP1
           /\ last.input = Owner(last.before).secret.word

\* C8: until the next reset a player's guessSolved never goes back to false, and
\* it becomes true only by that player's own correct guess.
C8_SolvedOnce ==
  last.op # "resetGame" =>
    SolvedOnlyByOwnCorrectGuess(TRUE) /\ SolvedOnlyByOwnCorrectGuess(FALSE)

\* A player who has solved guesses the word once more and stays solved.
C8_Witness ==
  /\ GuessSubmitted
  /\ last.result = "correct"
  /\ Actor(last.before).public.guessSolved
  /\ Actor(gameState).public.guessSolved

\* What one call may add to a score.
Charges == { 0, WRONG_GUESS_PENALTY } \cup { c.cost : c \in Cards }

\* C9: every score is an integer >= 0, and every step other than reset leaves
\* it unchanged or adds a hint cost or the wrong-guess penalty.
C9_ScoresGrow ==
  /\ gameState.p1.public.score \in Nat
  /\ gameState.p2.public.score \in Nat
  /\ last.op # "resetGame" =>
       /\ gameState.p1.public.score - last.before.p1.public.score \in Charges
       /\ gameState.p2.public.score - last.before.p2.public.score \in Charges

\* Both players have been charged.
C9_Witness ==
  /\ gameState.p1.public.score > 0
  /\ gameState.p2.public.score > 0
  /\ last.op # "resetGame"
  /\ gameState.p1.public.score + gameState.p2.public.score
       > last.before.p1.public.score + last.before.p2.public.score

\* C10: once player 2's word is confirmed, swap.p1Gets is player 2's drawn
\* inventory and swap.p2Gets player 1's; swap is set by that confirmation alone
\* and no later call other than reset changes it.
C10_SwapCrossed ==
  /\ gameState.swap # null =>
       /\ gameState.swap.p1Gets = gameState.p2.secret.letters
       /\ gameState.swap.p2Gets = gameState.p1.secret.letters
       /\ gameState.swap.p1Gets \in DrawOutcomes
       /\ gameState.swap.p2Gets \in DrawOutcomes
  /\ (last.op = "confirmSetupWord" /\ last.result = "ok"
        /\ last.before.phase = "SETUP_P2") =>
       /\ last.before.swap = null
       /\ gameState.swap =
            [ p1Gets |-> last.before.p2.secret.letters,
              p2Gets |-> last.before.p1.secret.letters ]
  /\ (last.op # "resetGame" /\ gameState.swap # last.before.swap) =>
       /\ last.op = "confirmSetupWord"
       /\ last.before.phase = "SETUP_P2"
       /\ last.before.swap = null

\* The two players drew different letters, and a hint was played after the swap.
C10_Witness ==
  /\ gameState.swap # null
  /\ gameState.swap.p1Gets # gameState.swap.p2Gets
  /\ HintPlayed
  /\ gameState.swap = last.before.swap

\* A player whose setup word was confirmed.
Confirmed(p) == hasSecret(p) /\ p.secret.word # << >>

SecretValid(p) ==
  Confirmed(p) =>
    /\ p.secret.word = toLowerCase(p.secret.word)
    /\ Len(p.secret.word) >= MIN_WORD_LENGTH
    /\ \A l \in Letter :
         Cardinality({ i \in DOMAIN p.secret.word : toUpperCaseChar(p.secret.word[i]) = l })
           <= CountOf(p.secret.letters, l)
    /\ \A i \in DOMAIN p.secret.word : toUpperCaseChar(p.secret.word[i]) \in Letter
    /\ dictionary.words # null
    /\ p.secret.word \in dictionary.words.set

SecretKept(was, is) == Confirmed(was) => hasSecret(is) /\ is.secret = was.secret

\* C11: a confirmed secret word is lowercase, at least 3 long, buildable from
\* its owner's letters and in the dictionary, and no call other than reset
\* changes a confirmed secret's word or letters.
C11_SecretValid ==
  /\ SecretValid(gameState.p1)
  /\ SecretValid(gameState.p2)
  /\ last.op # "resetGame" =>
       /\ SecretKept(last.before.p1, gameState.p1)
       /\ SecretKept(last.before.p2, gameState.p2)

\* Both words are confirmed, and a wrong guess has left them as they were.
C11_Witness ==
  /\ Confirmed(gameState.p1)
  /\ Confirmed(gameState.p2)
  /\ gameState.p1.secret.word # gameState.p2.secret.word
  /\ last.op = "submitGuess"
  /\ last.result = "wrong"

SetupPhases == { "SETUP_P1", "SETUP_P2" }

ConfirmedNow ==
  last.op = "confirmSetupWord" /\ last.result = "ok" /\ last.before.phase \in SetupPhases

\* C12: a valid word confirmed in SETUP_P1 becomes player 1's lowercased secret
\* word, player 2 gets a drawn inventory with an empty word, and the phase is
\* SETUP_P2; confirmed in SETUP_P2 it becomes player 2's lowercased secret word,
\* swap is set and the phase is PASS_TO_GUESS_P1; the confirming player's
\* letters stay as they were.
C12_ConfirmStores ==
  /\ (ConfirmedNow /\ last.before.phase = "SETUP_P1") =>
       /\ gameState.phase = "SETUP_P2"
       /\ gameState.p1.secret.word = toLowerCase(last.input)
       /\ gameState.p1.secret.letters = last.before.p1.secret.letters
       /\ gameState.p1.public = last.before.p1.public
       /\ gameState.p2.secret.letters \in DrawOutcomes
       /\ gameState.p2.secret.word = << >>
       /\ gameState.p2.public = FreshPublic
       /\ gameState.swap = null
  /\ (ConfirmedNow /\ last.before.phase = "SETUP_P2") =>
       /\ gameState.phase = "PASS_TO_GUESS_P1"
       /\ gameState.p2.secret.word = toLowerCase(last.input)
       /\ gameState.p2.secret.letters = last.before.p2.secret.letters
       /\ gameState.p1 = last.before.p1
       /\ gameState.swap # null

\* Player 2 confirmed a word drawn from letters other than player 1's.
C12_Witness ==
  /\ ConfirmedNow
  /\ last.before.phase = "SETUP_P2"
  /\ gameState.phase = "PASS_TO_GUESS_P1"
  /\ gameState.p2.secret.letters # gameState.p1.secret.letters

AllWhiteSpace(s) == \A i \in DOMAIN s : s[i] \in WhiteSpace

\* The three rejected calls C13 names.
InvalidWordConfirmed ==
  /\ last.op = "confirmSetupWord"
  /\ last.before.phase \in SetupPhases
  /\ LET player == IF last.before.phase = "SETUP_P1" THEN last.before.p1
                                                     ELSE last.before.p2
     IN  validateWord(dictionary, last.input, player.secret.letters) # ""

CardPlayedWithoutInput ==
  /\ last.op = "playHintCard"
  /\ last.before.phase \in GuessPhases
  /\ CardOf(last.card).requiresInput
  /\ AllWhiteSpace(last.input)

BlankGuessSubmitted ==
  /\ last.op = "submitGuess"
  /\ last.before.phase \in GuessPhases
  /\ AllWhiteSpace(last.input)

\* C13: a confirmation of a word that fails validation, a card that requires
\* input played with an empty or blank input, and an empty or blank guess each
\* leave the whole gameState as it was, on the screen that offers the action.
C13_RejectedChangesNothing ==
  (InvalidWordConfirmed \/ CardPlayedWithoutInput \/ BlankGuessSubmitted) =>
    /\ last.result = "rejected"
    /\ gameState = last.before
    /\ error.text # ""
    /\ InvalidWordConfirmed => gameState.phase \in SetupPhases
    /\ CardPlayedWithoutInput => playHintCardOffered(gameState)
    /\ BlankGuessSubmitted => submitGuessOffered(gameState)

\* A guess of one space was submitted after a hint had been charged.
C13_Witness ==
  /\ BlankGuessSubmitted
  /\ last.input = << " " >>
  /\ gameState.hintLog # << >>

\* C14: startGame with dictionaryReady false reports an error and leaves the
\* state as it was, in START; with dictionaryReady true in START it moves to
\* SETUP_P1 and gives player 1 drawn letters, an empty word, score 0,
\* guessSolved false and nothing revealed; no phase but START has
\* dictionaryReady false.
C14_StartNeedsDictionary ==
  /\ (last.op = "startGame" /\ ~last.before.dictionaryReady) =>
       /\ error.text = "Dictionary still loading..."
       /\ gameState = last.before
       /\ gameState.phase = "START"
  /\ (last.op = "startGame" /\ last.before.dictionaryReady
        /\ last.before.phase = "START") =>
       /\ gameState.phase = "SETUP_P1"
       /\ hasSecret(gameState.p1)
       /\ gameState.p1.secret.letters \in DrawOutcomes
       /\ gameState.p1.secret.word = << >>
       /\ gameState.p1.public = [score |-> 0, guessSolved |-> FALSE, revealed |-> EmptyObject]
  /\ ~gameState.dictionaryReady => gameState.phase = "START"

\* startGame was called while the dictionary was still loading.
C14_Witness ==
  /\ last.op = "startGame"
  /\ ~last.before.dictionaryReady
  /\ dictionary.loading = "pending"

\* C15: a guess that equals the secret word after trimming and lowercasing is
\* treated as correct: guessSolved is set, nothing is charged and nothing is
\* added to wrongGuesses.
C15_TrimmedGuessCorrect ==
  (GuessSubmitted /\ toLowerCase(trim(last.input)) = Owner(last.before).secret.word) =>
    /\ last.result = "correct"
    /\ Actor(gameState).public.guessSolved
    /\ gameState.p1.public.score = last.before.p1.public.score
    /\ gameState.p2.public.score = last.before.p2.public.score
    /\ gameState.wrongGuesses = last.before.wrongGuesses

\* The letters a record holds of the set S.
CountIn(record, S) ==
  sumOf([j \in DOMAIN SCRABBLE_KEYS |->
           IF SCRABBLE_KEYS[j] \in S THEN CountOf(record, SCRABBLE_KEYS[j]) ELSE 0])

Drawn == draw.stage \in { "done", "built" }

\* C16: every draw yields exactly 11 letters, exactly 4 of them vowels and
\* exactly 7 of them among the other 21 letters, whatever randomFloat() returns.
C16_DrawCounts ==
  Drawn =>
    /\ DOMAIN draw.combined \subseteq Letter
    /\ CountIn(draw.combined, Letter) = 11
    /\ CountIn(draw.combined, VOWELS) = 4
    /\ CountIn(draw.combined, Letter \ VOWELS) = 7
    /\ draw.combined = combinedOf(draw.vowels, draw.consonants)
    /\ DOMAIN draw.vowels \subseteq VOWELS
    /\ DOMAIN draw.consonants \subseteq Letter \ VOWELS

\* A draw of three different vowels and three different consonants.
C16_Witness ==
  /\ Drawn
  /\ Cardinality(DOMAIN draw.vowels) = 3
  /\ Cardinality(DOMAIN draw.consonants) = 3

\* C17: draws are without replacement: no drawn count exceeds the letter's
\* count in SCRABBLE_COUNTS, no letter is picked whose pool count is 0, and no
\* pool count goes below 0, whatever randomFloat() returns, 0 included.
C17_WithoutReplacement ==
  /\ \A l \in DOMAIN draw.result : draw.result[l] <= SCRABBLE_COUNTS[l]
  /\ \A l \in DOMAIN draw.combined : draw.combined[l] <= SCRABBLE_COUNTS[l]
  /\ \A l \in DOMAIN draw.pool : draw.pool[l] >= 0
  /\ draw.picked # "" => draw.pickedFrom > 0

\* The verdict of the validator in the latest confirmation.
ValidatorCalled ==
  /\ last.op = "confirmSetupWord"
  /\ last.before.phase \in SetupPhases
  /\ last.result \in { "ok", "rejected" }

ValidatorSaid(text) ==
  IF text = "" THEN last.result = "ok"
  ELSE last.result = "rejected" /\ error.text = text

\* C18: the validator reports the first failing check in the order length,
\* buildability, dictionary, and accepts exactly when all three pass.
C18_ValidationOrder ==
  ValidatorCalled =>
    LET word == last.input
        letters == IF last.before.phase = "SETUP_P1"
                   THEN last.before.p1.secret.letters
                   ELSE last.before.p2.secret.letters
        short == Len(word) < 3
        buildable == \A i \in DOMAIN word :
                       Cardinality({ h \in DOMAIN word :
                                       toUpperCaseChar(word[h]) = toUpperCaseChar(word[i]) })
                         <= CountOf(letters, toUpperCaseChar(word[i]))
        listed == word \in dictionary.words.set
    IN  /\ short => ValidatorSaid("Word must be at least 3 letters")
        /\ (~short /\ ~buildable) =>
             ValidatorSaid("Cannot build this word with available letters")
        /\ (~short /\ buildable /\ ~listed) => ValidatorSaid("Word not in dictionary")
        /\ (~short /\ buildable /\ listed) <=> ValidatorSaid("")

\* A word of the dictionary that the letters cannot build was refused for its
\* letters.
C18_Witness ==
  /\ ValidatorCalled
  /\ last.input \in dictionary.words.set
  /\ error.text = "Cannot build this word with available letters"
  /\ last.result = "rejected"

\* C19: canBuild(W, I) is true exactly when every character of W, counted
\* without regard to case, occurs in W at most as often as I holds it, a
\* letter I lacks counting as 0.
C19_CanBuild ==
  draw.stage = "built" =>
    (draw.built <=>
       \A i \in DOMAIN draw.word :
         Cardinality({ h \in DOMAIN draw.word :
                         toUpperCaseChar(draw.word[h]) = toUpperCaseChar(draw.word[i]) })
           <= CountOf(draw.combined, toUpperCaseChar(draw.word[i])))

\* A word was refused though the inventory holds each of its letters: one of
\* them too few times.
C19_Witness ==
  /\ draw.stage = "built"
  /\ ~draw.built
  /\ \A i \in DOMAIN draw.word : toUpperCaseChar(draw.word[i]) \in DOMAIN draw.combined

\* C20: resetGame leaves phase START, both scores 0, both guessSolved false,
\* both revealed records empty, no secret, swap null and both logs empty, and
\* dictionaryReady equal to the loader's readiness: a dictionary that was ready
\* stays ready and the next game can start.
C20_ResetIsInitial ==
  last.op = "resetGame" =>
    /\ gameState.phase = "START"
    /\ gameState.p1 = [public |-> [score |-> 0, guessSolved |-> FALSE, revealed |-> EmptyObject]]
    /\ gameState.p2 = [public |-> [score |-> 0, guessSolved |-> FALSE, revealed |-> EmptyObject]]
    /\ ~hasSecret(gameState.p1) /\ ~hasSecret(gameState.p2)
    /\ gameState.swap = null
    /\ gameState.hintLog = << >>
    /\ gameState.wrongGuesses = << >>
    /\ gameState.mode = last.before.mode
    /\ gameState.minWordLen = last.before.minWordLen
    /\ gameState.dictionaryReady = (dictionary.words # null)
    /\ last.before.dictionaryReady => gameState.dictionaryReady
    /\ last.before.dictionaryReady => startGameOffered(gameState)
    /\ gameState = [InitialGameState(FALSE) EXCEPT !.dictionaryReady = gameState.dictionaryReady]

\* The game was reset in the middle of player 1's turn, after a hint.
C20_Witness ==
  /\ last.op = "resetGame"
  /\ last.before.phase = "GUESS_P1"
  /\ last.before.hintLog # << >>
  /\ gameState.dictionaryReady

\* C21: whatever the calls of ensureLoaded() and their order, loadDictionary()
\* is started at most once; a call that finds a load in flight starts none,
\* waits, and resolves or rejects with that load; a call that finds the words
\* loaded returns at once and starts none.
C21_LoadStartedOnce ==
  /\ loaderCalls.loads <= 1
  /\ loaderCalls.loads = 0 <=> dictionary.loading = "null"
  /\ loaderCalls.latest.started =>
       loaderCalls.latest.found = [words |-> null, loading |-> "null"]
  /\ loaderCalls.latest.found.loading = "pending" =>
       ~loaderCalls.latest.started /\ loaderCalls.latest.status = "waiting"
  /\ loaderCalls.latest.found.words # null =>
       ~loaderCalls.latest.started /\ loaderCalls.latest.status = "returned"
  /\ \A c \in Callers :
       /\ loaderCalls.status[c] = "waiting" => dictionary.loading # "null"
       /\ loaderCalls.status[c] = "returned" =>
            dictionary.loading = "fulfilled" /\ dictionary.words # null
       /\ loaderCalls.status[c] = "threw" =>
            dictionary.loading = "rejected" /\ dictionary.words = null
  /\ mountEffect = "done" => dictionary.loading \in { "fulfilled", "rejected" }

\* The effect of the mount and every other caller wait on the one load.
C21_Witness ==
  /\ dictionary.loading = "pending"
  /\ loaderCalls.loads = 1
  /\ mountEffect = "waiting"
  /\ \A c \in Callers : loaderCalls.status[c] = "waiting"
  /\ loaderCalls.latest.found.loading = "pending"

LoadFailed == dictionary.loading = "rejected"

\* C22: once the load has failed it stays failed: no later call of
\* ensureLoaded() starts another load, the loader has no words,
\* dictionaryReady is false and the phase is START, in every later state.
C22_FailedLoadIsTerminal ==
  /\ [](LoadFailed =>
          /\ dictionary.words = null
          /\ loaderCalls.loads = 1
          /\ ~gameState.dictionaryReady
          /\ gameState.phase = "START")
  /\ [][LoadFailed => LoadFailed']_vars

\* After the failure a caller called again and was rejected, and the game was
\* reset.
C22_Witness ==
  /\ LoadFailed
  /\ loaderCalls.latest.found.loading = "rejected"
  /\ \E c \in Callers : loaderCalls.status[c] = "threw"
  /\ last.op = "resetGame"
  /\ mountEffect = "done"

\* The letters of a word, uppercased, and the members of a sequence.
LettersOf(word) == { toUpperCaseChar(word[i]) : i \in DOMAIN word }

Members(seq) == { seq[i] : i \in DOMAIN seq }

\* C23: Random Letter either appends to knownLetters exactly one letter of the
\* word that was not in it, or, when every unique letter of the word is known,
\* returns the revealed record as it was; knownLetters never holds a
\* duplicate or a letter the word lacks.
C23_RandomLetter ==
  LET was == knownLettersOf(hint.before)
      is == knownLettersOf(hint.revealed)
  IN  /\ Members(is) \subseteq LettersOf(hint.word)
      /\ Cardinality(Members(is)) = Len(is)
      /\ hint.card = "random-letter" =>
           IF LettersOf(hint.word) \subseteq Members(was)
           THEN hint.revealed = hint.before
           ELSE /\ \E l \in LettersOf(hint.word) \ Members(was) : is = Append(was, l)
                /\ \A f \in DOMAIN hint.before \ { "knownLetters" } :
                     f \in DOMAIN hint.revealed /\ hint.revealed[f] = hint.before[f]
                /\ DOMAIN hint.revealed = DOMAIN hint.before \cup { "knownLetters" }

\* Random Letter was applied once more after both letters of "noon" were known.
C23_Witness ==
  /\ hint.card = "random-letter"
  /\ hint.word = << "n", "o", "o", "n" >>
  /\ hint.randoms = 4
  /\ Len(knownLettersOf(hint.before)) = 2
  /\ hint.revealed = hint.before

Positions(word) == 0..(Len(word) - 1)

\* C24: Pattern Peek either adds exactly one entry pattern[i] = the word's
\* letter at zero-based position i, for an i not in pattern before, and keeps
\* the earlier entries, or, when every position is revealed, returns the
\* revealed record as it was; after as many applications as the word is long,
\* the pattern spells the word.
C24_PatternPeek ==
  LET was == patternOf(hint.before)
      is == patternOf(hint.revealed)
  IN  /\ hint.card = "pattern-peek" =>
           IF Positions(hint.word) \subseteq DOMAIN was
           THEN hint.revealed = hint.before
           ELSE /\ \E i \in Positions(hint.word) \ DOMAIN was :
                     /\ DOMAIN is = DOMAIN was \cup { i }
                     /\ is[i] = toUpperCaseChar(hint.word[i + 1])
                /\ \A h \in DOMAIN was : is[h] = was[h]
                /\ \A f \in DOMAIN hint.before \ { "pattern" } :
                     f \in DOMAIN hint.revealed /\ hint.revealed[f] = hint.before[f]
                /\ DOMAIN hint.revealed = DOMAIN hint.before \cup { "pattern" }
      /\ hint.peeks >= Len(hint.word) =>
           is = [i \in Positions(hint.word) |-> toUpperCaseChar(hint.word[i + 1])]
      /\ hint.peeks < Len(hint.word) => Cardinality(DOMAIN is) = hint.peeks

\* Pattern Peek was applied a fifth time to "noon", all four positions known.
C24_Witness ==
  /\ hint.card = "pattern-peek"
  /\ hint.word = << "n", "o", "o", "n" >>
  /\ hint.peeks = 5
  /\ hint.revealed = hint.before
  /\ DOMAIN patternOf(hint.revealed) = 0..3

\* Every field, contains key, knownLetters element and pattern position set in
\* `was` is set to the same value in `is`.
RevealedKept(was, is) ==
  \A f \in DOMAIN was :
    /\ f \in DOMAIN is
    /\ IF f \in { "contains", "pattern" }
       THEN \A key \in DOMAIN was[f] : key \in DOMAIN is[f] /\ is[f][key] = was[f][key]
       ELSE IF f = "knownLetters"
       THEN /\ Len(is[f]) >= Len(was[f])
            /\ \A i \in DOMAIN was[f] : is[f][i] = was[f][i]
       ELSE is[f] = was[f]

\* C25: a hint keeps everything that was set in the acting player's revealed
\* record and leaves the other player's revealed record as it was; a guess and
\* proceedToGuess change no revealed record.
C25_RevealedAdditive ==
  /\ HintPlayed =>
       /\ RevealedKept(Actor(last.before).public.revealed, Actor(gameState).public.revealed)
       /\ Owner(gameState).public.revealed = Owner(last.before).public.revealed
  /\ last.op \in { "submitGuess", "proceedToGuess" } =>
       /\ gameState.p1.public.revealed = last.before.p1.public.revealed
       /\ gameState.p2.public.revealed = last.before.p2.public.revealed

\* Contains Letter? was played by a player who had played Double Trouble: the
\* record holds both answers.
C25_Witness ==
  /\ HintPlayed
  /\ last.card = "contains-letter"
  /\ DUPLICATES_KEY \in DOMAIN containsOf(Actor(last.before).public.revealed)
  /\ Cardinality(DOMAIN containsOf(Actor(gameState).public.revealed)) = 2

\* C26: proceedToGuess takes PASS_TO_GUESS_P1 to GUESS_P1 and PASS_TO_GUESS_P2
\* to GUESS_P2 and changes nothing but the phase; called in any other phase it
\* leaves the whole game state as it was.
C26_ProceedToGuess ==
  last.op = "proceedToGuess" =>
    IF last.before.phase = "PASS_TO_GUESS_P1"
    THEN gameState = [last.before EXCEPT !.phase = "GUESS_P1"]
    ELSE IF last.before.phase = "PASS_TO_GUESS_P2"
    THEN gameState = [last.before EXCEPT !.phase = "GUESS_P2"]
    ELSE gameState = last.before

\* proceedToGuess was called after the game had ended.
C26_Witness ==
  /\ last.op = "proceedToGuess"
  /\ last.before.phase = "ENDGAME"
  /\ gameState.phase = "ENDGAME"

\* Mutant of winner: the lower score wins.
winnerLowest(gs) ==
  LET p1Score == gs.p1.public.score
      p2Score == gs.p2.public.score
  IN  IF p1Score < p2Score THEN "Player 1"
      ELSE IF p1Score > p2Score THEN "Player 2" ELSE "Tie"

\* The winner the ENDGAME screen computes from the state it renders.
winner(gs) ==
  LET p1Score == gs.p1.public.score
      p2Score == gs.p2.public.score
  IN  IF p1Score > p2Score THEN "Player 1"
      ELSE IF p1Score < p2Score THEN "Player 2" ELSE "Tie"

\* C27: at ENDGAME the winner is Player 1 exactly when p1.score > p2.score,
\* Player 2 exactly when p2.score > p1.score, and a tie exactly when the
\* scores are equal.
C27_Winner ==
  gameState.phase = "ENDGAME" =>
    /\ winner(gameState) = "Player 1" <=> gameState.p1.public.score > gameState.p2.public.score
    /\ winner(gameState) = "Player 2" <=> gameState.p2.public.score > gameState.p1.public.score
    /\ winner(gameState) = "Tie" <=> gameState.p1.public.score = gameState.p2.public.score
    /\ winner(gameState) \in { "Player 1", "Player 2", "Tie" }

\* The game ended with player 2 ahead.
C27_Witness ==
  /\ gameState.phase = "ENDGAME"
  /\ gameState.p2.public.score > gameState.p1.public.score
  /\ gameState.p1.public.score > 0
  /\ winner(gameState) = "Player 2"

\* C28: playHintCard and submitGuess called in a phase other than GUESS_P1 and
\* GUESS_P2 change no score, no solved flag, no revealed record, no log and
\* not the phase.
C28_OnlyInGuessPhases ==
  (last.op \in { "playHintCard", "submitGuess" } /\ last.before.phase \notin GuessPhases) =>
    /\ gameState.phase = last.before.phase
    /\ gameState.p1.public = last.before.p1.public
    /\ gameState.p2.public = last.before.p2.public
    /\ gameState.hintLog = last.before.hintLog
    /\ gameState.wrongGuesses = last.before.wrongGuesses

\* What a revealed record says is true of the word.
Sound(revealed, word) ==
  /\ "length" \in DOMAIN revealed => revealed.length = Len(word)
  /\ "firstLetter" \in DOMAIN revealed =>
       word # << >> /\ revealed.firstLetter = toUpperCaseChar(word[1])
  /\ "lastLetter" \in DOMAIN revealed =>
       word # << >> /\ revealed.lastLetter = toUpperCaseChar(word[Len(word)])
  /\ "vowelCount" \in DOMAIN revealed =>
       revealed.vowelCount =
         Cardinality({ i \in DOMAIN word : toUpperCaseChar(word[i]) \in { "A", "E", "I", "O", "U" } })
  /\ "contains" \in DOMAIN revealed =>
       \A key \in DOMAIN revealed.contains :
         IF key = DUPLICATES_KEY
         THEN revealed.contains[key] = (\E i, j \in DOMAIN word : i # j /\ word[i] = word[j])
         ELSE revealed.contains[key] = (\E i \in DOMAIN word : << toUpperCaseChar(word[i]) >> = key)
  /\ "knownLetters" \in DOMAIN revealed =>
       \A i \in DOMAIN revealed.knownLetters : revealed.knownLetters[i] \in LettersOf(word)
  /\ "pattern" \in DOMAIN revealed =>
       \A i \in DOMAIN revealed.pattern :
         i \in Positions(word) /\ revealed.pattern[i] = toUpperCaseChar(word[i + 1])

\* The word a player's hints are about: the opponent's secret word.
FacedWord(opponent) == IF hasSecret(opponent) THEN opponent.secret.word ELSE << >>

\* C29: in every reachable state each player's revealed record is consistent
\* with the opponent's secret word.
C29_HintsSound ==
  /\ Sound(gameState.p1.public.revealed, FacedWord(gameState.p2))
  /\ Sound(gameState.p2.public.revealed, FacedWord(gameState.p1))

\* Player 1 knows the last letter of player 2's word and that it holds no T.
C29_Witness ==
  /\ "lastLetter" \in DOMAIN gameState.p1.public.revealed
  /\ << "T" >> \in DOMAIN containsOf(gameState.p1.public.revealed)
  /\ ~containsOf(gameState.p1.public.revealed)[<< "T" >>]
  /\ gameState.p2.public.revealed # EmptyObject

RECURSIVE CostsBy(_, _)
\* The sum of the cost fields of the hintLog entries by `name`.
CostsBy(log, name) ==
  IF log = << >> THEN 0
  ELSE (IF Head(log).player = name THEN Head(log).cost ELSE 0) + CostsBy(Tail(log), name)

RECURSIVE PenaltiesBy(_, _)
\* The sum of the penalty fields of the wrongGuesses entries by `name`.
PenaltiesBy(log, name) ==
  IF log = << >> THEN 0
  ELSE (IF Head(log).player = name THEN Head(log).penalty ELSE 0)
         + PenaltiesBy(Tail(log), name)

IsPrefix(a, b) == Len(a) <= Len(b) /\ SubSeq(b, 1, Len(a)) = a

\* C30: player 2's score is the sum of the costs of Player 1's hintLog entries
\* plus the sum of the penalties of Player 1's wrongGuesses entries, player 1's
\* score is the same sums over Player 2's entries, and every step other than a
\* reset keeps both logs as prefixes of what they become.
C30_Ledger ==
  /\ gameState.p2.public.score =
       CostsBy(gameState.hintLog, "Player 1") + PenaltiesBy(gameState.wrongGuesses, "Player 1")
  /\ gameState.p1.public.score =
       CostsBy(gameState.hintLog, "Player 2") + PenaltiesBy(gameState.wrongGuesses, "Player 2")
  /\ last.op # "resetGame" =>
       /\ IsPrefix(last.before.hintLog, gameState.hintLog)
       /\ IsPrefix(last.before.wrongGuesses, gameState.wrongGuesses)

\* Both players have played a hint and player 1 has guessed wrong.
C30_Witness ==
  /\ CostsBy(gameState.hintLog, "Player 1") > 0
  /\ CostsBy(gameState.hintLog, "Player 2") > 0
  /\ PenaltiesBy(gameState.wrongGuesses, "Player 1") > 0
  /\ gameState.p1.public.score > 0
  /\ gameState.p2.public.score > 0

\* ------------------------------------------------------------ a long game
\* SpecLongGame plays the program through its screens as Spec does, with the
\* players using cards only, so that within the bound on the number of cards
\* a player runs out of letters and positions to reveal.

\* Cards played in one game.
MaxCardsPlayed == 7

CardsOfLongGame ==
  { c \in Cards : c.id \in { "random-letter", "pattern-peek" } }

ClickUseCardAgain ==
  /\ playHintCardOffered(gameState)
  /\ Len(gameState.hintLog) < MaxCardsPlayed
  /\ \E card \in CardsOfLongGame :
       \E cardInput \in CardInputsFor(card), k \in RandomValuesFor(card) :
         playHintCard(card, cardInput, k)

NextLongGame ==
  \/ ensureLoaded
  \/ loadDictionaryResolves
  \/ loadDictionaryRejects
  \/ ensureLoadedThen
  \/ ensureLoadedCatch
  \/ ClickStartGame
  \/ ClickConfirmSetupWord
  \/ ClickProceedToGuess
  \/ ClickUseCardAgain

SpecLongGame == Init /\ [][NextLongGame]_vars

\* The card just played had nothing left to tell the player who played it.
NothingNew ==
  LET word == Owner(last.before).secret.word
      was == Actor(last.before).public.revealed
  IN  CASE last.card = "random-letter" -> LettersOf(word) \subseteq Members(knownLettersOf(was))
        [] last.card = "pattern-peek" -> Positions(word) \subseteq DOMAIN patternOf(was)
        [] last.card = "last-letter" -> "lastLetter" \in DOMAIN was
        [] last.card = "first-letter" -> "firstLetter" \in DOMAIN was
        [] last.card = "word-length" -> "length" \in DOMAIN was
        [] last.card = "vowel-count" -> "vowelCount" \in DOMAIN was
        [] last.card = "contains-letter" -> toUpperCase(last.input) \in DOMAIN containsOf(was)
        [] last.card = "double-trouble" -> DUPLICATES_KEY \in DOMAIN containsOf(was)

\* C31: a card that has nothing new to reveal (Random Letter with every unique
\* letter known, Pattern Peek with every position revealed, any card played
\* again) leaves the revealed record as it was and still adds its cost to the
\* opponent's score, appends its hintLog entry and passes the turn.
C31_ChargedForNothingNew ==
  (HintPlayed /\ NothingNew) =>
    LET card == CardOf(last.card)
    IN  /\ Actor(gameState).public.revealed = Actor(last.before).public.revealed
        /\ Owner(gameState).public.score = Owner(last.before).public.score + card.cost
        /\ Actor(gameState).public.score = Actor(last.before).public.score
        /\ gameState.hintLog =
             Append(last.before.hintLog,
                    [player |-> ActorName, card |-> card.name, cost |-> card.cost])
        /\ gameState.phase = IF BothSolved(gameState) THEN "ENDGAME" ELSE OtherPassPhase

\* Random Letter was played a third time against "tee": both letters were known.
C31_Witness ==
  /\ HintPlayed
  /\ last.card = "random-letter"
  /\ Owner(last.before).secret.word = << "t", "e", "e" >>
  /\ Len(knownLettersOf(Actor(last.before).public.revealed)) = 2
  /\ Actor(gameState).public.revealed = Actor(last.before).public.revealed
  /\ Owner(gameState).public.score >= 9

HasWord(p) == hasSecret(p) /\ p.secret.word # << >>

\* C32: swap is null exactly in START, SETUP_P1 and SETUP_P2; from
\* PASS_TO_GUESS_P1 on both players have a secret with a non-empty word, so a
\* card or a guess on a GUESS screen never returns for want of the opponent's
\* secret; in SETUP_P1 only player 1 has letters, and in SETUP_P2 player 1's
\* word is set and player 2's word is empty.
C32_PhaseStructure ==
  /\ gameState.swap = null <=> gameState.phase \in { "START", "SETUP_P1", "SETUP_P2" }
  /\ gameState.phase \in PassPhases \cup GuessPhases \cup { "ENDGAME" } =>
       HasWord(gameState.p1) /\ HasWord(gameState.p2)
  /\ (last.op \in { "playHintCard", "submitGuess" } /\ last.before.phase \in GuessPhases) =>
       last.result # "ignored"
  /\ gameState.phase = "SETUP_P1" =>
       /\ hasSecret(gameState.p1) /\ gameState.p1.secret.word = << >>
       /\ ~hasSecret(gameState.p2)
  /\ gameState.phase = "SETUP_P2" =>
       /\ HasWord(gameState.p1)
       /\ hasSecret(gameState.p2) /\ gameState.p2.secret.word = << >>

\* A card was played on a GUESS screen: both words are set and swap is written.
C32_Witness ==
  /\ HintPlayed
  /\ gameState.swap # null
  /\ HasWord(gameState.p1) /\ HasWord(gameState.p2)
  /\ gameState.phase \in PassPhases

\* ------------------------------------------- two calls from the same render
\* A handler is a closure of the render it was created in: isP1, opponent,
\* player, cardInput and guessWord are read from that render's gameState,
\* while the updater it queues is applied to the state the queue has reached.
\* SpecSameRender adds to the running program a second call of playHintCard or
\* submitGuess made from the render the latest call was made from, before the
\* component has rendered again: its snapshot is last.before, its prev is
\* gameState.  The run stops after that second call.

SameRenderPending == TurnTaken(last) /\ playHintCardOffered(last.before)

playHintCardAgain(card, cardInput, k) ==
  LET snapshot == last.before
      isP1 == snapshot.phase = "GUESS_P1"
      opponent == IF isP1 THEN snapshot.p2 ELSE snapshot.p1
      player == IF isP1 THEN snapshot.p1 ELSE snapshot.p2
  IN  /\ IF ~hasSecret(opponent)
         THEN /\ UNCHANGED << gameState, error >>
              /\ last' = Ran("playHintCard", gameState, card.id, cardInput, "ignored")
         ELSE IF card.requiresInput /\ trim(cardInput) = << >>
         THEN /\ error' = ErrorMessage("Please enter a letter")
              /\ UNCHANGED gameState
              /\ last' = Ran("playHintCard", gameState, card.id, cardInput, "rejected")
         ELSE IF effectThrows(card, opponent.secret.word)
         THEN /\ UNCHANGED << gameState, error >>
              /\ last' = Ran("playHintCard", gameState, card.id, cardInput, "threw")
         ELSE LET newRevealed ==
                    effect(card, opponent.secret.word, player.public.revealed, cardInput, k)
              IN  /\ gameState' = playHintCardUpdate(snapshot, gameState, card, newRevealed)
                  /\ error' = NoError
                  /\ last' = Ran("playHintCard", gameState, card.id, cardInput, "ok")
      /\ UNCHANGED << dictLoading, dictionary, mountEffect, draw, loaderCalls, hint >>
      /\ turnBy' = turnByAfter(last', turnBy)

submitGuessAgain(guessWord) ==
  LET snapshot == last.before
      isP1 == snapshot.phase = "GUESS_P1"
      opponent == IF isP1 THEN snapshot.p2 ELSE snapshot.p1
  IN  /\ IF trim(guessWord) = << >>
         THEN /\ error' = ErrorMessage("Enter a word to guess")
              /\ UNCHANGED gameState
              /\ last' = Ran("submitGuess", gameState, "", guessWord, "rejected")
         ELSE IF ~hasSecret(opponent)
         THEN /\ UNCHANGED << gameState, error >>
              /\ last' = Ran("submitGuess", gameState, "", guessWord, "ignored")
         ELSE IF isCorrectGuess(guessWord, opponent.secret.word)
         THEN /\ gameState' = submitGuessCorrectUpdate(snapshot, gameState)
              /\ error' = NoError
              /\ last' = Ran("submitGuess", gameState, "", guessWord, "correct")
         ELSE /\ gameState' = submitGuessWrongUpdate(snapshot, gameState, guessWord)
              /\ error' = [text |-> "Wrong! is incorrect. 2 points to opponent.",
                           word |-> guessWord]
              /\ last' = Ran("submitGuess", gameState, "", guessWord, "wrong")
      /\ UNCHANGED << dictLoading, dictionary, mountEffect, draw, loaderCalls, hint >>
      /\ turnBy' = turnByAfter(last', turnBy)

\* The same render holds the same card, card input and guess field: a second
\* call of the handler just called gets the arguments the first one got.
ClickUseCardAgainstSameRender ==
  /\ SameRenderPending
  /\ \E card \in Cards :
       \E cardInput \in CardInputsFor(card), k \in RandomValuesFor(card) :
         /\ last.op = "playHintCard" => card.id = last.card /\ cardInput = last.input
         /\ playHintCardAgain(card, cardInput, k)
  /\ WithinBound(gameState')

EnterGuessAgainstSameRender ==
  /\ SameRenderPending
  /\ \E typed \in TypedGuessWords :
       /\ last.op = "submitGuess" => guessWordOf(typed) = last.input
       /\ submitGuessAgain(guessWordOf(typed))
  /\ WithinBound(gameState')

NextSameRender ==
  \/ Running
  \/ ClickUseCardAgainstSameRender
  \/ EnterGuessAgainstSameRender

SpecSameRender == Init /\ [][NextSameRender]_vars

\* The state the latest call leads to when it is applied to the state it was
\* queued on, for a value k of randomFloat().
AppliedInTurn(k) ==
  LET before == last.before
      isP1 == before.phase = "GUESS_P1"
      opponent == IF isP1 THEN before.p2 ELSE before.p1
      player == IF isP1 THEN before.p1 ELSE before.p2
  IN  IF last.op = "playHintCard"
      THEN playHintCardUpdate(before, before, CardOf(last.card),
             effect(CardOf(last.card), opponent.secret.word, player.public.revealed,
                    last.input, k))
      ELSE IF isCorrectGuess(last.input, opponent.secret.word)
      THEN submitGuessCorrectUpdate(before, before)
      ELSE submitGuessWrongUpdate(before, before, last.input)

\* C33: when two hint or guess actions are dispatched from the same render,
\* the state after the second equals the second applied to the state the first
\* led to, and every score still equals the costs and penalties the logs hold
\* against it.
C33_AppliedOneAfterAnother ==
  TurnTaken(last) =>
    /\ \E k \in RandomValues : gameState = AppliedInTurn(k)
    /\ gameState.p2.public.score - CostsBy(gameState.hintLog, "Player 1")
         = PenaltiesBy(gameState.wrongGuesses, "Player 1")
    /\ gameState.p1.public.score - CostsBy(gameState.hintLog, "Player 2")
         = PenaltiesBy(gameState.wrongGuesses, "Player 2")

====
